---- MODULE Spec2Model ----
(***************************************************************************)
(* A model of the instakoo diagnosis server (src/server/server.js): the    *)
(* Naver-place endpoint with its URL resolution, candidate loop, timeout   *)
(* race, browser sessions and result cache.                                *)
(*                                                                         *)
(* Strings are sequences of atoms (TLA+ strings).  An atom stands for a    *)
(* run of characters that the program's regular expressions never split.   *)
(***************************************************************************)
EXTENDS Naturals, Integers, Sequences, FiniteSets, TLC

(***************************************************************************)
(* Strings                                                                 *)
(***************************************************************************)

\* JavaScript null / undefined where a string is expected.
NULL == <<"<null>">>

\* JavaScript truthiness of a nullable string.
Truthy(s) == s # NULL /\ s # <<>>

DigitAtoms == {"12345", "678"}

\* Atoms whose last character is a slash.
SlashEndAtoms == {"/", "https://", "http://"}

\* String.prototype.toLowerCase, atom by atom.
LowerAtom(a) ==
    CASE a = "Restaurant" -> "restaurant"
      [] a = "placeId=" -> "placeid="
      [] a = "xYz" -> "xyz"
      [] a = "Shop" -> "shop"
      [] a = "M.PLACE.NAVER.COM" -> "m.place.naver.com"
      [] OTHER -> a

ToLower(s) == [i \in 1..Len(s) |-> LowerAtom(s[i])]

\* The atoms that contain the given needle as a substring.
AtomsContaining(needle) ==
    CASE needle = "naver.me" -> {"naver.me"}
      [] needle = "naver.com" ->
            {"map.naver.com", "m.place.naver.com", "pcmap.place.naver.com",
             "q=naver.com"}
      [] needle = "naver.net" -> {"naver.net"}
      [] needle = "TIMEOUT" -> {"TIMEOUT_55000"}
      [] OTHER -> {needle}

\* String.prototype.includes for a needle that lies within one atom.
Includes(s, needle) == \E i \in 1..Len(s) : s[i] \in AtomsContaining(needle)

\* String.prototype.trim: whitespace atoms are removed at both ends.
RECURSIVE TrimLeft(_)
TrimLeft(s) == IF s # <<>> /\ Head(s) = " " THEN TrimLeft(Tail(s)) ELSE s

RECURSIVE TrimRight(_)
TrimRight(s) ==
    IF s # <<>> /\ s[Len(s)] = " " THEN TrimRight(SubSeq(s, 1, Len(s) - 1)) ELSE s

Trim(s) == TrimRight(TrimLeft(s))

\* The least element of a non-empty set of naturals.
Min(S) == CHOOSE x \in S : \A y \in S : x <= y

(***************************************************************************)
(* URL normalizer and identifier resolver                                  *)
(***************************************************************************)

normalizeUrl(input) ==
    LET raw == IF input = NULL THEN <<>> ELSE Trim(input)
    IN  IF raw = <<>> THEN <<>>
        ELSE IF raw[1] \in {"http://", "https://"} THEN raw
        ELSE <<"https://">> \o raw

\* The listing-type segments of the second pattern of extractPlaceIdFromUrl.
TypeSegments ==
    {"restaurant", "hospital", "pharmacy", "clinic", "beauty", "accommodation",
     "place", "hairshop", "cafe"}

\* Positions where /\/place\/(\d+)/ matches: a slash, "place", a slash, digits.
PlaceMatches(s) ==
    {i \in 1..Len(s) :
        /\ i + 3 <= Len(s)
        /\ s[i] \in SlashEndAtoms
        /\ s[i + 1] = "place"
        /\ s[i + 2] = "/"
        /\ s[i + 3] \in DigitAtoms}

\* Positions where /\/(restaurant|...|cafe)\/(\d+)/i matches.
TypedMatches(s) ==
    {i \in 1..Len(s) :
        /\ i + 3 <= Len(s)
        /\ s[i] \in SlashEndAtoms
        /\ LowerAtom(s[i + 1]) \in TypeSegments
        /\ s[i + 2] = "/"
        /\ s[i + 3] \in DigitAtoms}

\* Positions where /[?&]placeId=(\d+)/i matches.
QueryMatches(s) ==
    {i \in 1..Len(s) :
        /\ i + 2 <= Len(s)
        /\ s[i] \in {"?", "&"}
        /\ LowerAtom(s[i + 1]) = "placeid="
        /\ s[i + 2] \in DigitAtoms}

extractPlaceIdFromUrl(s) ==
    IF s = NULL THEN NULL
    ELSE IF PlaceMatches(s) # {} THEN <<s[Min(PlaceMatches(s)) + 3]>>
    ELSE IF TypedMatches(s) # {} THEN <<s[Min(TypedMatches(s)) + 3]>>
    ELSE IF QueryMatches(s) # {} THEN <<s[Min(QueryMatches(s)) + 2]>>
    ELSE NULL

\* The end of the run of slash-free atoms that starts at position j.
RECURSIVE RunEnd(_, _)
RunEnd(s, j) ==
    IF j + 1 <= Len(s) /\ s[j + 1] \notin SlashEndAtoms THEN RunEnd(s, j + 1) ELSE j

\* Positions where /m\.place\.naver\.com\/([^\/]+)\/(\d+)/i matches: the host,
\* a slash, a non-empty slash-free run, a slash, digits.
MobileMatches(s) ==
    {i \in 1..Len(s) :
        /\ LowerAtom(s[i]) \in {"m.place.naver.com", "pcm.place.naver.com"}
        /\ i + 4 <= Len(s)
        /\ s[i + 1] = "/"
        /\ s[i + 2] \notin SlashEndAtoms
        /\ LET e == RunEnd(s, i + 2)
           IN  /\ e + 2 <= Len(s)
               /\ s[e + 1] = "/"
               /\ s[e + 2] \in DigitAtoms}

\* Capture groups 1 and 2 of the leftmost match of the mobile pattern.
MobileGroups(s) ==
    LET i == Min(MobileMatches(s))
        e == RunEnd(s, i + 2)
    IN  [g1 |-> SubSeq(s, i + 2, e), g2 |-> <<s[e + 2]>>]

extractTypeFromUrl(s) ==
    IF s = NULL \/ MobileMatches(s) = {} THEN NULL
    ELSE ToLower(MobileGroups(s).g1)

\* /^\d+$/.test
AllDigits(s) == Len(s) = 1 /\ s[1] \in DigitAtoms

\* CanonicalOf with the identifier as a path segment of the mobile host.
CanonicalOf_MobileHost(id) == <<"https://", "m.place.naver.com", "/">> \o id

CanonicalOf(id) == <<"https://", "map.naver.com", "/", "p", "/", "entry", "/", "place", "/">> \o id

\* Positions where /"placeId"\s*:\s*"(\d+)"/ matches in a page body.
JsonQuotedMatches(html) ==
    {i \in 1..Len(html) :
        /\ i + 4 <= Len(html)
        /\ html[i] = "\"placeId\""
        /\ html[i + 1] = ":"
        /\ html[i + 2] = "\""
        /\ html[i + 3] \in DigitAtoms
        /\ html[i + 4] = "\""}

\* Positions where /"placeId"\s*:\s*(\d+)/ matches in a page body.
JsonBareMatches(html) ==
    {i \in 1..Len(html) :
        /\ i + 2 <= Len(html)
        /\ html[i] = "\"placeId\""
        /\ html[i + 1] = ":"
        /\ html[i + 2] \in DigitAtoms}

\* mm of resolveNaverPlaceUrl: the first alternative that matches the body,
\* as its capture groups [g1, g2]; NULL groups when nothing matches.
HtmlMatch(html) ==
    IF JsonQuotedMatches(html) # {}
        THEN [found |-> TRUE, g1 |-> <<html[Min(JsonQuotedMatches(html)) + 3]>>, g2 |-> NULL]
    ELSE IF JsonBareMatches(html) # {}
        THEN [found |-> TRUE, g1 |-> <<html[Min(JsonBareMatches(html)) + 2]>>, g2 |-> NULL]
    ELSE IF MobileMatches(html) # {}
        THEN [found |-> TRUE, g1 |-> MobileGroups(html).g1, g2 |-> MobileGroups(html).g2]
    ELSE IF PlaceMatches(html) # {}
        THEN [found |-> TRUE, g1 |-> <<html[Min(PlaceMatches(html)) + 3]>>, g2 |-> NULL]
    ELSE [found |-> FALSE, g1 |-> NULL, g2 |-> NULL]

\* The catch block of resolveNaverPlaceUrl.
ResolveCatch_Rethrow(inputUrl, normalized) == [threw |-> TRUE]

ResolveCatch(inputUrl, normalized) ==
    [threw |-> FALSE,
     inputUrl |-> inputUrl,
     finalUrl |-> normalized,
     placeId |-> NULL,
     typeHint |-> NULL,
     canonicalUrl |-> normalized]

\* The try block of resolveNaverPlaceUrl for the outcome of axios.get:
\* get.ok is FALSE when the request rejects (network error, timeout, a status
\* of 400 or more); get.hasRes is FALSE when the call resolves to no response
\* object; get.responseUrl is NULL when res.request.res.responseUrl is missing.
ResolveTry(inputUrl, normalized, get) ==
    IF ~get.ok \/ ~get.hasRes THEN [threw |-> TRUE]
    ELSE
    LET finalUrl == IF Truthy(get.responseUrl) THEN get.responseUrl ELSE normalized
        id0 == extractPlaceIdFromUrl(finalUrl)
        type0 == extractTypeFromUrl(finalUrl)
        scan == ~Truthy(id0) /\ get.dataIsString
        mm == IF scan THEN HtmlMatch(get.data) ELSE [found |-> FALSE, g1 |-> NULL, g2 |-> NULL]
        id1 == IF mm.found /\ ~Truthy(id0) /\ Truthy(mm.g2) THEN mm.g2 ELSE id0
        id2 == IF mm.found /\ ~Truthy(id1) /\ Truthy(mm.g1) /\ AllDigits(mm.g1)
               THEN mm.g1 ELSE id1
        type1 == IF mm.found /\ ~Truthy(type0) /\ Truthy(mm.g1) /\ ~AllDigits(mm.g1)
                 THEN ToLower(mm.g1) ELSE type0
    IN  [threw |-> FALSE,
         inputUrl |-> inputUrl,
         finalUrl |-> finalUrl,
         placeId |-> IF Truthy(id2) THEN id2 ELSE NULL,
         typeHint |-> IF Truthy(type1) THEN type1 ELSE NULL,
         canonicalUrl |-> IF Truthy(id2) THEN CanonicalOf(id2) ELSE finalUrl]

\* Whether resolveNaverPlaceUrl returns before any outbound request.
ResolvesDirectly(inputUrl) == Truthy(extractPlaceIdFromUrl(normalizeUrl(inputUrl)))

\* resolveNaverPlaceUrl; `get` is read only when no direct match exists.  The
\* result has threw = TRUE when the promise rejects.
resolveNaverPlaceUrl(inputUrl, get) ==
    LET normalized == normalizeUrl(inputUrl)
        directId == extractPlaceIdFromUrl(normalized)
        directType == extractTypeFromUrl(normalized)
    IN  IF Truthy(directId)
        THEN [threw |-> FALSE,
              inputUrl |-> inputUrl,
              finalUrl |-> normalized,
              placeId |-> directId,
              typeHint |-> directType,
              canonicalUrl |-> CanonicalOf(directId)]
        ELSE LET t == ResolveTry(inputUrl, normalized, get)
             IN  IF t.threw THEN ResolveCatch(inputUrl, normalized) ELSE t

(***************************************************************************)
(* Candidate builder                                                       *)
(***************************************************************************)

MobileUrl(type, id) == <<"https://", "m.place.naver.com", "/">> \o type \o <<"/">> \o id

\* Dedup that returns the list as it is.
Dedup_KeepAll(list) == list

\* [...new Set(list)]: duplicates removed, first occurrence kept.
Dedup(list) ==
    LET kept == {i \in 1..Len(list) : \A j \in 1..(i - 1) : list[j] # list[i]}
    IN  [n \in 1..Cardinality(kept) |->
            list[CHOOSE i \in kept : Cardinality({j \in kept : j < i}) = n - 1]]

\* buildMobileScrapeCandidates with the type-hinted URL pushed last.
buildMobileScrapeCandidates_HintLast(placeId, typeHint) ==
    LET id == IF Truthy(placeId) THEN Trim(placeId) ELSE <<>>
    IN  IF id = <<>> THEN <<>>
        ELSE Dedup(<<MobileUrl(<<"place">>, id), MobileUrl(<<"restaurant">>, id)>>
                   \o (IF Truthy(typeHint) THEN <<MobileUrl(typeHint, id)>> ELSE <<>>))

buildMobileScrapeCandidates(placeId, typeHint) ==
    LET id == IF Truthy(placeId) THEN Trim(placeId) ELSE <<>>
    IN  IF id = <<>> THEN <<>>
        ELSE Dedup((IF Truthy(typeHint) THEN <<MobileUrl(typeHint, id)>> ELSE <<>>)
                   \o <<MobileUrl(<<"place">>, id), MobileUrl(<<"restaurant">>, id)>>)

(***************************************************************************)
(* Keyword extractor and scoring engine (first definitions)                *)
(*                                                                         *)
(* A text is the sequence of its whitespace-separated pieces.  Hangul      *)
(* words are written in romanized form with the prefix "ko:".              *)
(***************************************************************************)

\* Pieces made only of characters outside [\w\s가-힣]: replaced by blanks.
PunctuationAtoms == {"!", "*"}

\* Pieces of one character (t.length > 1 fails).
OneCharAtoms == {"7", "a", "ko:mit", "ko:deung"}

\* The stopwords of more than one character: 있는, 없는, 하는.
StopWords == {"ko:issneun", "ko:eopsneun", "ko:haneun", "ko:mit", "ko:deung"}

\* Pieces that are canonical array indices: an object lists these keys
\* first, in ascending numeric order.
IndexValue(a) ==
    CASE a = "7" -> 7
      [] a = "678" -> 678
      [] a = "2024" -> 2024
      [] a = "12345" -> 12345
      [] OTHER -> -1

IsIndexKey(a) == IndexValue(a) >= 0

\* CountedTokens without the stopword test.
CountedTokens_KeepStopWords(text) ==
    SelectSeq(text, LAMBDA t : t \notin PunctuationAtoms /\ t \notin OneCharAtoms)

\* The tokens that are counted, in text order.
CountedTokens(text) ==
    SelectSeq(text, LAMBDA t : t \notin PunctuationAtoms /\ t \notin OneCharAtoms
                               /\ t \notin StopWords)

Occurrences(toks, t) == Cardinality({i \in 1..Len(toks) : toks[i] = t})

\* The distinct elements of a sequence in order of first occurrence.
FirstOccurrences(toks) == Dedup(toks)

\* The sequence of the index keys of S in ascending numeric order.
AscendingKeys(S) ==
    [n \in 1..Cardinality(S) |->
        CHOOSE a \in S : Cardinality({b \in S : IndexValue(b) < IndexValue(a)}) = n - 1]

\* Object.entries(freq): index keys ascending, then the other keys in
\* insertion order.
EntryKeys(toks) ==
    LET firsts == FirstOccurrences(toks)
        idxKeys == {firsts[i] : i \in {j \in 1..Len(firsts) : IsIndexKey(firsts[j])}}
    IN  AscendingKeys(idxKeys) \o SelectSeq(firsts, LAMBDA t : ~IsIndexKey(t))

\* A stable sort of the keys by descending count.
SortByCount(keys, toks) ==
    LET Before(j, i) ==
            \/ Occurrences(toks, keys[j]) > Occurrences(toks, keys[i])
            \/ Occurrences(toks, keys[j]) = Occurrences(toks, keys[i]) /\ j < i
    IN  [n \in 1..Len(keys) |->
            keys[CHOOSE i \in 1..Len(keys) :
                    Cardinality({j \in 1..Len(keys) : Before(j, i)}) = n - 1]]

MainCount == 5
SubEnd == 12

extractKeywords(text) ==
    IF text = <<>> THEN [main |-> <<>>, sub |-> <<>>]
    ELSE LET toks == CountedTokens(text)
             sorted == SortByCount(EntryKeys(toks), toks)
             n == Len(sorted)
         IN  [main |-> SubSeq(sorted, 1, IF n < MainCount THEN n ELSE MainCount),
              sub |-> SubSeq(sorted, MainCount + 1, IF n < SubEnd THEN n ELSE SubEnd)]

\* GradeOf with open lower bounds.
GradeOf_OpenBounds(score) ==
    IF score > 90 THEN "S"
    ELSE IF score > 70 THEN "A"
    ELSE IF score > 50 THEN "B"
    ELSE IF score > 30 THEN "C"
    ELSE "D"

\* The grade bands; both definitions of calculateNaverScore have the same.
GradeOf(score) ==
    IF score >= 90 THEN "S"
    ELSE IF score >= 70 THEN "A"
    ELSE IF score >= 50 THEN "B"
    ELSE IF score >= 30 THEN "C"
    ELSE "D"

\* calculateNaverScore (first definition); storeInfoLen is storeInfoText.length.
calculateNaverScore(data) ==
    LET keywords == extractKeywords(data.fullText)
        score == (IF data.storeInfoLen > 300 THEN 25 ELSE 0)
                 + (IF data.receiptReviewCount > 50 THEN 15 ELSE 0)
                 + (IF data.blogReviewCount > 10 THEN 15 ELSE 0)
                 + (IF data.photoCount > 5 THEN 10 ELSE 0)
                 + (IF Len(keywords.main) >= 3 THEN 10 ELSE 0)
    IN  [score |-> score, grade |-> GradeOf(score), keywords |-> keywords,
         breakdown |-> <<>>, recommendations |-> <<>>]

(***************************************************************************)
(* Keyword extractor and scoring engine (second definitions)               *)
(*                                                                         *)
(* A snapshot is given by the lengths of its texts, its counts and the     *)
(* pieces of fullText.                                                     *)
(***************************************************************************)

\* The stopwords of the second extractKeywords of more than one character:
\* the ones above and 습니다, 합니다, 안녕하세요, 입니다.
StopWords2 ==
    StopWords \cup {"ko:seupnida", "ko:hapnida", "ko:annyeonghaseyo", "ko:ipnida"}

CountedTokens2(text) ==
    SelectSeq(text, LAMBDA t : t \notin PunctuationAtoms /\ t \notin OneCharAtoms
                               /\ t \notin StopWords2)

\* extractKeywords (second definition).
extractKeywords2(text) ==
    IF text = <<>> THEN [main |-> <<>>, sub |-> <<>>]
    ELSE LET toks == CountedTokens2(text)
             sorted == SortByCount(EntryKeys(toks), toks)
             n == Len(sorted)
         IN  [main |-> SubSeq(sorted, 1, IF n < MainCount THEN n ELSE MainCount),
              sub |-> SubSeq(sorted, MainCount + 1, IF n < SubEnd THEN n ELSE SubEnd)]

\* Scaled without Math.min.
Scaled_Uncapped(x, full, cap) == (x * cap) \div full

\* Math.min(cap, Math.floor((x / full) * cap)) for a count x >= 0.  On the
\* counts used here the double arithmetic gives the floor of the exact
\* quotient.
Scaled(x, full, cap) ==
    IF (x * cap) \div full < cap THEN (x * cap) \div full ELSE cap

\* The recommendations pushed for the thresholds that are missed, in the
\* order of the pushes.
Recommend(conds) == SelectSeq(conds, LAMBDA c : c[1])

\* calculateNaverScore (second definition, with breakdown).  The names,
\* notes and recommendations are given by English tags for the Korean texts.
calculateNaverScore2(data) ==
    LET dirLen == data.directionsLen
        dirScore == Scaled(dirLen, 50, 15)
        infoLen == data.storeInfoLen
        infoScore == Scaled(infoLen, 300, 25)
        receiptScore == Scaled(data.receiptReviewCount, 100, 15)
        blogScore == Scaled(data.blogReviewCount, 30, 15)
        menuScore == (IF data.menuCount > 0 THEN 10 ELSE 0)
                     + (IF data.menuCount > 0
                           /\ 2 * data.menuWithDescriptionCount > data.menuCount
                        THEN 10 ELSE 0)
        keywords == extractKeywords2(data.fullText)
        extraScore == (IF data.photoCount > 5 THEN 5 ELSE 0)
                      + (IF Len(keywords.main) >= 3 THEN 5 ELSE 0)
        score == dirScore + infoScore + receiptScore + blogScore + menuScore + extraScore
        breakdown ==
            << [name |-> "directions", score |-> dirScore, max |-> 15,
                notes |-> IF dirLen < 20 THEN "too short or missing" ELSE "detailed"],
               [name |-> "store info", score |-> infoScore, max |-> 25,
                notes |-> IF infoLen < 50 THEN "insufficient" ELSE "sufficient"],
               [name |-> "reviews", score |-> receiptScore + blogScore, max |-> 30,
                notes |-> "counts"],
               [name |-> "menu", score |-> menuScore, max |-> 20,
                notes |-> IF data.menuCount = 0 THEN "no menu registered"
                          ELSE "described menus"],
               [name |-> "photos and keywords", score |-> extraScore, max |-> 10,
                notes |-> "registration state"] >>
        recommendations ==
            Recommend(<< <<data.receiptReviewCount < 50, "get visit reviews">>,
                         <<data.blogReviewCount < 10, "get blog reviews">>,
                         <<data.menuCount > 0 /\ data.menuWithDescriptionCount = 0,
                           "describe every menu">>,
                         <<score < 40, "improve info, menu and photos">> >>)
    IN  [score |-> score, grade |-> GradeOf(score), breakdown |-> breakdown,
         recommendations |-> [i \in 1..Len(recommendations) |-> recommendations[i][2]],
         keywords |-> keywords]

(***************************************************************************)
(* Scrape executor: what a rendered page yields                            *)
(***************************************************************************)

StableMinLen == 500
BodyCap == 60000
StoreInfoCap == 9000
FullTextCap == 15000

AtMost(n, cap) == IF n < cap THEN n ELSE cap

\* A rendered page: the length of document.body.innerText in characters, its
\* pieces, its heading and the heading's length, and the counts that follow
\* the visit-review and blog-review labels (0 when the label is absent).
Pages ==
    { [bodyLen |-> 500, title |-> "Unknown", titleLen |-> 7, words |-> <<"a">>,
       receipt |-> 0, blog |-> 0],
      [bodyLen |-> 501, title |-> "ko:sikdang", titleLen |-> 2,
       words |-> <<"ko:sajin", "ko:matjip", "ko:gangnam", "ko:matjip">>,
       receipt |-> 120, blog |-> 45] }

\* ContentStable that accepts a text of exactly StableMinLen characters.
ContentStable_AtLeast(page) == page.bodyLen >= StableMinLen

\* The predicate of page.waitForFunction.
ContentStable(page) == page.bodyLen > StableMinLen

\* dom.bodyText.includes("사진") || dom.bodyText.includes("이미지")
HasPhotoWord(words) == \E i \in 1..Len(words) : words[i] \in {"ko:sajin", "ko:imiji"}

\* The object scrapeNaverPlace returns for a page.
SnapshotOf(page) ==
    LET bodyLen == AtMost(page.bodyLen, BodyCap)
    IN  [placeName |-> page.title,
         placeNameLen |-> page.titleLen,
         directionsText |-> <<>>,
         storeInfoLen |-> AtMost(bodyLen, StoreInfoCap),
         photoCount |-> IF HasPhotoWord(page.words) THEN 10 ELSE 0,
         blogReviewCount |-> page.blog,
         receiptReviewCount |-> page.receipt,
         menuCount |-> 0,
         menuWithDescriptionCount |-> 0,
         fullTextLen |-> AtMost(bodyLen, FullTextCap),
         fullText |-> page.words]

\* The cap of fullText in the second definition of scrapeNaverPlace.
FullTextCap2 == 5000

\* The object the second definition of scrapeNaverPlace returns for a page:
\* descLen and dirLen are the lengths of the texts of the description and
\* directions elements, menus and described the numbers of menu items and
\* of those with a description of more than 5 characters.
SnapshotOf2(page) ==
    [placeName |-> page.title,
     placeNameLen |-> page.titleLen,
     directionsLen |-> page.dirLen,
     storeInfoLen |-> page.descLen,
     photoCount |-> IF HasPhotoWord(page.words) THEN 10 ELSE 0,
     blogReviewCount |-> page.blog,
     receiptReviewCount |-> page.receipt,
     menuCount |-> page.menus,
     menuWithDescriptionCount |-> page.described,
     fullTextLen |-> AtMost(page.titleLen + 1 + page.descLen + 1 + page.dirLen, FullTextCap2)]

(***************************************************************************)
(* The place endpoint: state                                               *)
(***************************************************************************)

VARIABLES
    rq,      \* rq[r]: the state of the handler invocation of request r
    sc,      \* sc[r][k]: the scrapeNaverPlace call of the k-th attempt of r
    cache,   \* diagnosisCache: key -> [value, left]
    call     \* the last application of a function on its own: [op, ...]

vars == <<rq, sc, cache, call>>

Requests == {"r1", "r2"}

\* The most candidates buildMobileScrapeCandidates can return.
MaxCandidates == 3

\* The 55000 ms of withTimeout and the stdTTL of 43200 s, in ticks of the
\* clock.
TimeoutTicks == 2
TTLTicks == 3

\* Request bodies' url fields.
InputUrls ==
    { <<>>,
      <<"example.com", "/", "place", "/", "12345">>,
      <<"https://", "example.com", "/", "?", "q=naver.com">>,
      <<"naver.me", "/", "xYz">>,
      <<"https://", "m.place.naver.com", "/", "hairshop", "/", "12345">>,
      <<" ", "map.naver.com", "/", "p", "/", "entry", "/", "place", "/", "12345">> }

NoGet == [ok |-> FALSE, hasRes |-> FALSE, responseUrl |-> NULL,
          dataIsString |-> FALSE, data |-> <<>>]

\* Outcomes of the outbound GET of resolveNaverPlaceUrl: a rejection, a
\* redirect to a listing URL, a page without any identifier, and a page body
\* that embeds the identifier.
GetOutcomes ==
    { NoGet,
      [ok |-> TRUE, hasRes |-> TRUE,
       responseUrl |-> <<"https://", "m.place.naver.com", "/", "restaurant", "/", "12345">>,
       dataIsString |-> TRUE, data |-> <<"<html>">>],
      [ok |-> TRUE, hasRes |-> TRUE,
       responseUrl |-> <<"https://", "map.naver.com", "/">>,
       dataIsString |-> FALSE, data |-> <<>>],
      [ok |-> TRUE, hasRes |-> TRUE, responseUrl |-> NULL,
       dataIsString |-> TRUE, data |-> <<"<html>", "\"placeId\"", ":", "\"", "12345", "\"">>] }

NoPage == [bodyLen |-> 0, title |-> "", titleLen |-> 0, words |-> <<>>, receipt |-> 0, blog |-> 0]

\* A scrapeNaverPlace call that has not been made.  lost tells that the
\* timer of withTimeout won the race against this call.
NoScrape == [stage |-> "NONE", browser |-> FALSE, lost |-> FALSE, page |-> NoPage, err |-> ""]

\* lastErr = null
NoErr == [detail |-> NULL, from |-> 0]

NoBody == [ok |-> FALSE, error |-> ""]

NoResolved == [threw |-> FALSE, inputUrl |-> NULL, finalUrl |-> NULL, placeId |-> NULL,
               typeHint |-> NULL, canonicalUrl |-> NULL]

\* A handler invocation before the request arrives.  idx is the position of
\* the loop in candidates (0 before the loop) and timer the ticks left on
\* the timer of withTimeout.  read tells that diagnosisCache.get was called,
\* hit that it returned an entry, wrote that diagnosisCache.set was called;
\* elapsed counts the ticks
\* spent in the candidate loop (up to TimeoutTicks + 1), and sinceWrite the
\* ticks since this request wrote the cache (up to TTLTicks + 1).
IdleRequest ==
    [pc |-> "idle", input |-> <<>>, resolved |-> NoResolved, candidates |-> <<>>,
     idx |-> 0, usedUrl |-> NULL, lastErr |-> NoErr, timer |-> 0,
     status |-> 0, body |-> NoBody, read |-> FALSE, hit |-> FALSE, wrote |-> FALSE,
     elapsed |-> 0, sinceWrite |-> 0]

\* No function has been applied on its own.
NoCall == [op |-> "none"]

Init ==
    /\ rq = [r \in Requests |-> IdleRequest]
    /\ sc = [r \in Requests |-> [k \in 1..MaxCandidates |-> NoScrape]]
    /\ cache = <<>>
    /\ call = NoCall

(***************************************************************************)
(* Result cache (node-cache with stdTTL)                                   *)
(***************************************************************************)

CacheKey(placeId) == <<"np_id_">> \o placeId

\* An entry is expired once the clock has passed its expiry time; left is
\* the number of ticks from the clock to the expiry time.
Expired(entry) == entry.left < 0

\* CacheGet that never looks at the expiry time.
CacheGet_NoExpiry(c, key) ==
    IF key \in DOMAIN c
    THEN [found |-> TRUE, value |-> c[key].value]
    ELSE [found |-> FALSE, value |-> NoBody]

\* diagnosisCache.get
CacheGet(c, key) ==
    IF key \in DOMAIN c /\ ~Expired(c[key])
    THEN [found |-> TRUE, value |-> c[key].value]
    ELSE [found |-> FALSE, value |-> NoBody]

\* diagnosisCache.set
CacheSet(c, key, value) ==
    [x \in DOMAIN c \cup {key} |->
        IF x = key THEN [value |-> value, left |-> TTLTicks] ELSE c[x]]

(***************************************************************************)
(* The place endpoint: handler steps                                       *)
(***************************************************************************)

\* res.status(..).json(..) followed by return.
Respond(q, status, body) ==
    [q EXCEPT !.pc = "done", !.status = status, !.body = body, !.timer = 0]

\* The rejection of withTimeout's timer for attempt k; from names the attempt
\* whose Error object this is.
TimeoutError(k) == [detail |-> <<"Error:", "TIMEOUT_55000">>, from |-> k]

\* The error scrapeNaverPlace throws from its catch block for attempt k.
ScrapeError(k, inner) == [detail |-> <<"Error:", "SCRAPE_FAILED:", inner>>, from |-> k]

\* CatchRespond that sends the error body without setting a status.
CatchRespond_DefaultStatus(q, e) ==
    LET err == IF e = NoErr
               THEN [detail |-> <<"Error:", "SCRAPE_FAILED:", "all candidates failed">>, from |-> 0]
               ELSE e
        debug == [message |-> err.detail, errorOf |-> err.from, resolved |-> q.resolved]
    IN  Respond(q, 200, [ok |-> FALSE, error |-> "SCRAPE_FAILED", debug |-> debug])

\* The catch block of the handler for the thrown error e.
CatchRespond(q, e) ==
    LET err == IF e = NoErr
               THEN [detail |-> <<"Error:", "SCRAPE_FAILED:", "all candidates failed">>, from |-> 0]
               ELSE e
        debug == [message |-> err.detail, errorOf |-> err.from, resolved |-> q.resolved]
    IN  IF Includes(err.detail, "TIMEOUT")
        THEN Respond(q, 504, [ok |-> FALSE, error |-> "TIMEOUT", debug |-> debug])
        ELSE Respond(q, 500, [ok |-> FALSE, error |-> "SCRAPE_FAILED", debug |-> debug])

\* BeginAttempt with usedUrl assigned from the head of the list only.
BeginAttempt_FirstUrl(q, scr, k) ==
    [q |-> [q EXCEPT !.pc = "attempt", !.idx = k, !.usedUrl = q.candidates[1],
                     !.timer = TimeoutTicks],
     s |-> [scr EXCEPT ![k] = [NoScrape EXCEPT !.stage = "INIT"]]]

\* One iteration of the candidate loop up to its await: usedUrl = cand, the
\* call of scrapeNaverPlace and the start of the timer.
BeginAttempt(q, scr, k) ==
    [q |-> [q EXCEPT !.pc = "attempt", !.idx = k, !.usedUrl = q.candidates[k],
                     !.timer = TimeoutTicks],
     s |-> [scr EXCEPT ![k] = [NoScrape EXCEPT !.stage = "INIT"]]]

\* AttemptFailed with lastErr assigned only while it is null.
AttemptFailed_KeepFirst(q, scr, e) ==
    LET q1 == [q EXCEPT !.lastErr = IF q.lastErr = NoErr THEN e ELSE q.lastErr]
    IN  IF q.idx < Len(q.candidates)
        THEN [q |-> [q1 EXCEPT !.pc = "attempt", !.idx = q.idx + 1,
                               !.usedUrl = q.candidates[q.idx + 1],
                               !.timer = TimeoutTicks],
              s |-> [scr EXCEPT ![q.idx + 1] = [NoScrape EXCEPT !.stage = "INIT"]]]
        ELSE [q |-> CatchRespond(q1, q1.lastErr), s |-> scr]

\* AttemptFailed that tries the failed candidate again.
AttemptFailed_Retry(q, scr, e) ==
    BeginAttempt([q EXCEPT !.lastErr = e], scr, q.idx)

\* The catch of the loop body (lastErr = e) and what follows it: the next
\* iteration, or the throw after the loop.
AttemptFailed(q, scr, e) ==
    LET q1 == [q EXCEPT !.lastErr = e]
    IN  IF q.idx < Len(q.candidates)
        THEN BeginAttempt(q1, scr, q.idx + 1)
        ELSE [q |-> CatchRespond(q1, q1.lastErr), s |-> scr]

\* calculateNaverScore over the snapshots the pages yield, computed once.
Analysis == [d \in {SnapshotOf(page) : page \in Pages} |-> calculateNaverScore(d)]

\* The response object built after the loop.
ResponseOf(q, scraped) ==
    LET analysis == Analysis[scraped]
    IN  [ok |-> TRUE,
         inputUrl |-> q.input,
         finalUrl |-> q.resolved.finalUrl,
         canonicalUrl |-> q.resolved.canonicalUrl,
         placeId |-> q.resolved.placeId,
         typeHint |-> q.resolved.typeHint,
         scrapeUrl |-> q.usedUrl,
         scrapeCandidates |-> q.candidates,
         placeName |-> scraped.placeName,
         metrics |-> scraped,
         score |-> analysis.score,
         grade |-> analysis.grade,
         keywords |-> analysis.keywords]

\* The handler from the cache read on, for a resolved target with an
\* identifier: the cached answer, or the candidate list and the first attempt.
FromCacheRead(r, q0) ==
    LET q == [q0 EXCEPT !.read = TRUE]
        cached == CacheGet(cache, CacheKey(q.resolved.placeId))
        cands == buildMobileScrapeCandidates(q.resolved.placeId, q.resolved.typeHint)
        q1 == [q EXCEPT !.candidates = cands]
    IN  IF cached.found
        THEN /\ rq' = [rq EXCEPT ![r] =
                        Respond([q EXCEPT !.hit = TRUE], 200, cached.value)]
             /\ UNCHANGED <<sc, cache>>
        ELSE IF cands = <<>>
        THEN /\ rq' = [rq EXCEPT ![r] = CatchRespond(q1, NoErr)]
             /\ UNCHANGED <<sc, cache>>
        ELSE LET b == BeginAttempt(q1, sc[r], 1)
             IN  /\ rq' = [rq EXCEPT ![r] = b.q]
                 /\ sc' = [sc EXCEPT ![r] = b.s]
                 /\ UNCHANGED cache

\* AfterResolve with the cache read moved before the test of the identifier.
AfterResolve_ReadFirst(r, q0, resolved) ==
    LET q == [q0 EXCEPT !.resolved = resolved, !.read = TRUE]
    IN  IF resolved.threw
        THEN /\ rq' = [rq EXCEPT ![r] = CatchRespond(q0, ScrapeError(0, "resolve"))]
             /\ UNCHANGED <<sc, cache>>
        ELSE IF ~Truthy(resolved.placeId)
        THEN /\ rq' = [rq EXCEPT ![r] =
                        Respond(q, 422, [ok |-> FALSE, error |-> "PLACE_ID_NOT_FOUND",
                                         debug |-> [resolved |-> resolved]])]
             /\ UNCHANGED <<sc, cache>>
        ELSE FromCacheRead(r, q)

\* The handler from the return of resolveNaverPlaceUrl to its next await or
\* its response: the 422 answer, the cache read, the candidate list and the
\* first attempt.
AfterResolve(r, q0, resolved) ==
    LET q == [q0 EXCEPT !.resolved = resolved]
    IN  IF resolved.threw
        THEN /\ rq' = [rq EXCEPT ![r] = CatchRespond(q0, ScrapeError(0, "resolve"))]
             /\ UNCHANGED <<sc, cache>>
        ELSE IF ~Truthy(resolved.placeId)
        THEN /\ rq' = [rq EXCEPT ![r] =
                        Respond(q, 422, [ok |-> FALSE, error |-> "PLACE_ID_NOT_FOUND",
                                         debug |-> [resolved |-> resolved]])]
             /\ UNCHANGED <<sc, cache>>
        ELSE FromCacheRead(r, q)

\* The validation of the handler.
ValidInput(input) ==
    /\ input # <<>>
    /\ \/ Includes(input, "naver.me")
       \/ Includes(input, "naver.com")
       \/ Includes(input, "naver.net")

\* A request arrives: validation with its 400 answer, then
\* resolveNaverPlaceUrl up to its await.
Arrive(r, url) ==
    /\ rq[r].pc = "idle"
    /\ LET input == normalizeUrl(url)
           q == [rq[r] EXCEPT !.input = input]
       IN  IF ~ValidInput(input)
           THEN /\ rq' = [rq EXCEPT ![r] =
                           Respond(q, 400, [ok |-> FALSE, error |-> "INVALID_URL"])]
                /\ UNCHANGED <<sc, cache>>
           ELSE IF ResolvesDirectly(input)
           THEN AfterResolve(r, q, resolveNaverPlaceUrl(input, NoGet))
           ELSE /\ rq' = [rq EXCEPT ![r] = [q EXCEPT !.pc = "resolving"]]
                /\ UNCHANGED <<sc, cache>>
    /\ UNCHANGED call

\* The outbound GET of resolveNaverPlaceUrl settles.
ResolveDone(r, get) ==
    /\ rq[r].pc = "resolving"
    /\ AfterResolve(r, rq[r], resolveNaverPlaceUrl(rq[r].input, get))
    /\ UNCHANGED call

(***************************************************************************)
(* Scrape executor: the stages of one scrapeNaverPlace call                *)
(***************************************************************************)

\* chromium.launch resolves: the browser session is open.
Launched(s) == [s EXCEPT !.stage = "SESSION_OPEN", !.browser = TRUE]

\* newContext, newPage, route, goto and waitForTimeout resolve.
Navigated(s) == [s EXCEPT !.stage = "NAVIGATED"]

\* page.waitForFunction settles on the page the browser rendered: it resolves
\* when the text is long enough and rejects after its timeout otherwise.
Waited(s, page) ==
    IF ContentStable(page)
    THEN [s EXCEPT !.stage = "CONTENT_STABLE", !.page = page]
    ELSE [s EXCEPT !.stage = "FAILED", !.err = "page.waitForFunction"]

\* page.evaluate resolves and the snapshot is built.
Extracted(s) == [s EXCEPT !.stage = "EXTRACTED"]

\* The call that is pending in a stage.
PendingCall(stage) ==
    CASE stage = "INIT" -> "browserType.launch"
      [] stage = "SESSION_OPEN" -> "page.goto"
      [] stage = "CONTENT_STABLE" -> "page.evaluate"
      [] OTHER -> ""

\* Failed that goes on to the return statement instead of the catch block.
Failed_Swallowed(s) == [s EXCEPT !.stage = "EXTRACTED"]

\* The pending call rejects: the catch block is entered.
Failed(s) == [s EXCEPT !.stage = "FAILED", !.err = PendingCall(s.stage)]

\* Closed without the finally block: the browser is closed on the normal
\* return only.
Closed_OnReturnOnly(s) ==
    [s EXCEPT !.stage = "CLOSED", !.browser = (s.browser /\ s.stage # "EXTRACTED")]

\* The finally block: browser.close() when a browser was launched.
Closed(s) == [s EXCEPT !.stage = "CLOSED", !.browser = FALSE]

ScrapeLaunch(r, k) ==
    /\ sc[r][k].stage = "INIT"
    /\ sc' = [sc EXCEPT ![r][k] = Launched(sc[r][k])]
    /\ UNCHANGED <<rq, cache, call>>

ScrapeNavigate(r, k) ==
    /\ sc[r][k].stage = "SESSION_OPEN"
    /\ sc' = [sc EXCEPT ![r][k] = Navigated(sc[r][k])]
    /\ UNCHANGED <<rq, cache, call>>

ScrapeWait(r, k, page) ==
    /\ sc[r][k].stage = "NAVIGATED"
    /\ sc' = [sc EXCEPT ![r][k] = Waited(sc[r][k], page)]
    /\ UNCHANGED <<rq, cache, call>>

ScrapeExtract(r, k) ==
    /\ sc[r][k].stage = "CONTENT_STABLE"
    /\ sc' = [sc EXCEPT ![r][k] = Extracted(sc[r][k])]
    /\ UNCHANGED <<rq, cache, call>>

ScrapeFail(r, k) ==
    /\ sc[r][k].stage \in {"INIT", "SESSION_OPEN", "CONTENT_STABLE"}
    /\ sc' = [sc EXCEPT ![r][k] = Failed(sc[r][k])]
    /\ UNCHANGED <<rq, cache, call>>

\* Awaited that takes the settling of any scrape of r as the outcome of the
\* race in progress.
Awaited_AnyAttempt(r, k) == rq[r].pc = "attempt"

\* Whether the handler of r is awaiting the race of attempt k.
Awaited(r, k) == rq[r].pc = "attempt" /\ rq[r].idx = k /\ ~sc[r][k].lost

\* SettleWith that stores the outcome of a failed attempt in the cache too.
SettleWith_CacheOnFailure(r, k, s) ==
    LET scr == [sc[r] EXCEPT ![k] = Closed(s)]
    IN  IF ~Awaited(r, k)
        THEN /\ sc' = [sc EXCEPT ![r] = scr]
             /\ UNCHANGED <<rq, cache>>
        ELSE IF s.stage = "EXTRACTED"
        THEN LET response == ResponseOf(rq[r], SnapshotOf(s.page))
             IN  /\ sc' = [sc EXCEPT ![r] = scr]
                 /\ cache' = CacheSet(cache, CacheKey(rq[r].resolved.placeId), response)
                 /\ rq' = [rq EXCEPT ![r] =
                            Respond([rq[r] EXCEPT !.wrote = TRUE], 200, response)]
        ELSE LET f == AttemptFailed(rq[r], scr, ScrapeError(k, s.err))
             IN  /\ rq' = [rq EXCEPT ![r] = f.q]
                 /\ sc' = [sc EXCEPT ![r] = f.s]
                 /\ cache' = CacheSet(cache, CacheKey(rq[r].resolved.placeId), f.q.body)

\* The finally block ends for a scrape that entered it in state s
\* (browser.close() has resolved, if a browser was open) and the promise of
\* scrapeNaverPlace settles.  When the handler still awaits this attempt it
\* goes on: on a snapshot with the score, the cache write and the 200 answer,
\* on an error with the catch of the loop.
SettleWith(r, k, s) ==
    LET scr == [sc[r] EXCEPT ![k] = Closed(s)]
    IN  IF ~Awaited(r, k)
        THEN /\ sc' = [sc EXCEPT ![r] = scr]
             /\ UNCHANGED <<rq, cache>>
        ELSE IF s.stage = "EXTRACTED"
        THEN LET response == ResponseOf(rq[r], SnapshotOf(s.page))
             IN  /\ sc' = [sc EXCEPT ![r] = scr]
                 /\ cache' = CacheSet(cache, CacheKey(rq[r].resolved.placeId), response)
                 /\ rq' = [rq EXCEPT ![r] =
                            Respond([rq[r] EXCEPT !.wrote = TRUE], 200, response)]
        ELSE LET f == AttemptFailed(rq[r], scr, ScrapeError(k, s.err))
             IN  /\ rq' = [rq EXCEPT ![r] = f.q]
                 /\ sc' = [sc EXCEPT ![r] = f.s]
                 /\ UNCHANGED cache

ScrapeSettle(r, k) ==
    /\ sc[r][k].stage \in {"EXTRACTED", "FAILED"}
    /\ SettleWith(r, k, sc[r][k])
    /\ UNCHANGED call

\* The timer of withTimeout fires before the scrape has settled: the race
\* rejects, the scrape goes on unobserved, and the loop's catch runs.
TimeoutFires(r) ==
    /\ rq[r].pc = "attempt"
    /\ rq[r].timer = 0
    /\ LET k == rq[r].idx
           scr == [sc[r] EXCEPT ![k].lost = TRUE]
           f == AttemptFailed(rq[r], scr, TimeoutError(k))
       IN  /\ sc[r][k].stage # "CLOSED"
           /\ rq' = [rq EXCEPT ![r] = f.q]
           /\ sc' = [sc EXCEPT ![r] = f.s]
    /\ UNCHANGED <<cache, call>>

\* One tick of the clock for a handler invocation.
TickRequest(q) ==
    IF q.pc = "attempt"
    THEN [q EXCEPT !.timer = q.timer - 1,
                   !.elapsed = IF q.elapsed <= TimeoutTicks THEN q.elapsed + 1 ELSE q.elapsed]
    ELSE IF q.wrote /\ q.sinceWrite <= TTLTicks
    THEN [q EXCEPT !.sinceWrite = q.sinceWrite + 1]
    ELSE q

\* One tick of the clock for a cache entry.
TickEntry(e) == IF Expired(e) THEN e ELSE [e EXCEPT !.left = e.left - 1]

\* Time passes, but not past a timer that is due.
Tick ==
    /\ \A r \in Requests : rq[r].pc = "attempt" => rq[r].timer > 0
    /\ rq' = [r \in Requests |-> TickRequest(rq[r])]
    /\ cache' = [x \in DOMAIN cache |-> TickEntry(cache[x])]
    /\ UNCHANGED <<sc, call>>

\* The steps of the endpoint for the requests R with the urls U.
NextOf(R, U) ==
    \/ \E r \in R, url \in U : Arrive(r, url)
    \/ \E r \in R, get \in GetOutcomes : ResolveDone(r, get)
    \/ \E r \in R, k \in 1..MaxCandidates : ScrapeLaunch(r, k)
    \/ \E r \in R, k \in 1..MaxCandidates : ScrapeNavigate(r, k)
    \/ \E r \in R, k \in 1..MaxCandidates, page \in Pages : ScrapeWait(r, k, page)
    \/ \E r \in R, k \in 1..MaxCandidates : ScrapeExtract(r, k)
    \/ \E r \in R, k \in 1..MaxCandidates : ScrapeFail(r, k)
    \/ \E r \in R, k \in 1..MaxCandidates : ScrapeSettle(r, k)
    \/ \E r \in R : TimeoutFires(r)
    \/ Tick

\* One request, every input.
Next == NextOf({"r1"}, InputUrls)

Spec == Init /\ [][Next]_vars

\* Any step of the k-th scrapeNaverPlace call of r.
ScrapeStep(r, k) ==
    \/ ScrapeLaunch(r, k)
    \/ ScrapeNavigate(r, k)
    \/ \E page \in Pages : ScrapeWait(r, k, page)
    \/ ScrapeExtract(r, k)
    \/ ScrapeFail(r, k)
    \/ ScrapeSettle(r, k)

\* Every browser call of a started scrape settles: launch, goto and
\* waitForFunction carry timeouts, and the event loop runs the continuation
\* of a settled promise whether or not the handler still awaits it.
FairSpec == Spec /\ \A k \in 1..MaxCandidates : WF_vars(ScrapeStep("r1", k))

\* The outbound GET of resolveNaverPlaceUrl settles as well: it carries a
\* timeout of 12000 ms.
LiveSpec == FairSpec /\ WF_vars(\E get \in GetOutcomes : ResolveDone("r1", get))

(***************************************************************************)
(* Two requests in flight at once.  The browser calls of one scrape are    *)
(* local to it, so a scrape is run from its launch to its settling in one  *)
(* step.                                                                   *)
(***************************************************************************)

\* The states in which a scrape can enter its finally block.
RunOutcomes(s) ==
    {Failed(s), Failed(Launched(s))}
    \cup {Waited(Navigated(Launched(s)), page) : page \in {p \in Pages : ~ContentStable(p)}}
    \cup {Extracted(Waited(Navigated(Launched(s)), page)) :
            page \in {p \in Pages : ContentStable(p)}}
    \cup {Failed(Waited(Navigated(Launched(s)), page)) :
            page \in {p \in Pages : ContentStable(p)}}

ScrapeRun(r, k) ==
    /\ sc[r][k].stage = "INIT"
    /\ \E s \in RunOutcomes(sc[r][k]) : SettleWith(r, k, s)
    /\ UNCHANGED call

CacheUrls == { <<>>, <<"naver.me", "/", "xYz">> }

NextCache ==
    \/ \E r \in Requests, url \in CacheUrls : Arrive(r, url)
    \/ \E r \in Requests, get \in GetOutcomes : ResolveDone(r, get)
    \/ \E r \in Requests, k \in 1..MaxCandidates : ScrapeRun(r, k)
    \/ \E r \in Requests : TimeoutFires(r)
    \/ Tick

CacheSpec == Init /\ [][NextCache]_vars

\* Two requests for one place: the first submits a short link that
\* resolves to the identifier 12345, the second a listing URL that carries
\* it.
SharedUrls ==
    [r1 |-> <<"naver.me", "/", "xYz">>,
     r2 |-> <<"https://", "m.place.naver.com", "/", "place", "/", "12345">>]

NextShared ==
    \/ \E r \in Requests : Arrive(r, SharedUrls[r])
    \/ \E r \in Requests, get \in GetOutcomes : ResolveDone(r, get)
    \/ \E r \in Requests, k \in 1..MaxCandidates : ScrapeRun(r, k)
    \/ \E r \in Requests : TimeoutFires(r)
    \/ Tick

SharedSpec == Init /\ [][NextShared]_vars

(***************************************************************************)
(* The resolver applied on its own to every input and every outcome of     *)
(* the outbound GET.                                                       *)
(***************************************************************************)

\* Arguments of resolveNaverPlaceUrl: null, empty and blank strings, URLs of
\* every shape extractPlaceIdFromUrl knows, several shapes at once, and URLs
\* without an identifier.
ResolveInputs ==
    { NULL,
      <<>>,
      <<" ">>,
      <<"naver.me", "/", "xYz">>,
      <<"https://", "naver.me", "/", "xYz", " ">>,
      <<"http://", "example.com", "/">>,
      <<"https://", "map.naver.com", "/", "p", "/", "entry", "/", "place", "/", "12345">>,
      <<"https://", "m.place.naver.com", "/", "restaurant", "/", "12345">>,
      <<"https://", "M.PLACE.NAVER.COM", "/", "Restaurant", "/", "12345", "?", "placeId=", "678">>,
      <<"m.place.naver.com", "/", "hairshop", "/", "678", "/", "place", "/", "12345">>,
      <<"https://", "map.naver.com", "/", "?", "placeId=", "678">>,
      <<"https://", "m.place.naver.com", "/", "12345", "/", "678">>,
      <<"https://", "m.place.naver.com", "/", "nailshop", "/", "678">> }

\* Outcomes of the outbound GET: a rejection, no response object, and
\* responses with and without a landed URL, with a body that is no string
\* and with bodies that match each alternative of the scan, or none.
ResolveGets ==
    { NoGet,
      [ok |-> TRUE, hasRes |-> FALSE, responseUrl |-> NULL,
       dataIsString |-> FALSE, data |-> <<>>] }
    \cup
    { [ok |-> TRUE, hasRes |-> TRUE, responseUrl |-> u, dataIsString |-> d[1], data |-> d[2]] :
        u \in { NULL,
                <<"https://", "m.place.naver.com", "/", "restaurant", "/", "12345">>,
                <<"https://", "pcmap.place.naver.com", "/", "restaurant", "/", "12345",
                  "/", "home">>,
                <<"https://", "map.naver.com", "/">> },
        d \in { <<FALSE, <<>>>>,
                <<TRUE, <<"<html>">>>>,
                <<TRUE, <<"<html>", "\"placeId\"", ":", "\"", "678", "\"">>>>,
                <<TRUE, <<"<html>", "\"placeId\"", ":", "678">>>>,
                <<TRUE, <<"<html>", "m.place.naver.com", "/", "cafe", "/", "678">>>>,
                <<TRUE, <<"<html>", "m.place.naver.com", "/", "12345", "/", "678">>>>,
                <<TRUE, <<"<html>", "/", "place", "/", "678">>>> } }

\* resolveNaverPlaceUrl(input) is called and the GET, if made, ends as get.
ResolveCall(input, get) ==
    /\ call = NoCall
    /\ call' = [op |-> "resolveNaverPlaceUrl", input |-> input, get |-> get,
                result |-> resolveNaverPlaceUrl(input, get)]
    /\ UNCHANGED <<rq, sc, cache>>

\* resolveNaverPlaceUrl is called on the canonicalUrl of an earlier result;
\* a GET made by the second call would end as again.
ResolveAgain(input, get, again) ==
    LET first == resolveNaverPlaceUrl(input, get)
    IN  /\ call = NoCall
        /\ call' = [op |-> "resolveAgain", input |-> input, get |-> get,
                    again |-> again, first |-> first,
                    result |-> resolveNaverPlaceUrl(first.canonicalUrl, again)]
        /\ UNCHANGED <<rq, sc, cache>>

\* Identifiers and type hints a resolved target can carry: null, or the
\* digits of a pattern; null, or a lower-case path segment (digits included,
\* which extractTypeFromUrl accepts as a type).
CandidateIds == {NULL, <<"12345">>, <<"678">>}

CandidateHints ==
    {NULL, <<"restaurant">>, <<"place">>, <<"hairshop">>, <<"cafe">>, <<"12345">>}

\* buildMobileScrapeCandidates(placeId, typeHint) is called.
CandidatesCall(placeId, typeHint) ==
    /\ call = NoCall
    /\ call' = [op |-> "buildMobileScrapeCandidates", placeId |-> placeId,
                typeHint |-> typeHint,
                result |-> buildMobileScrapeCandidates(placeId, typeHint)]
    /\ UNCHANGED <<rq, sc, cache>>

\* extractPlaceIdFromUrl(input) is called.
ExtractCall(input) ==
    /\ call = NoCall
    /\ call' = [op |-> "extractPlaceIdFromUrl", input |-> input,
                result |-> extractPlaceIdFromUrl(input)]
    /\ UNCHANGED <<rq, sc, cache>>

NextResolve ==
    \/ \E input \in ResolveInputs, get \in ResolveGets : ResolveCall(input, get)
    \/ \E input \in ResolveInputs : ExtractCall(input)
    \/ \E placeId \in CandidateIds, typeHint \in CandidateHints :
            CandidatesCall(placeId, typeHint)
    \/ \E input \in ResolveInputs, get \in ResolveGets, again \in ResolveGets :
            ResolveAgain(input, get, again)

ResolveSpec == Init /\ [][NextResolve]_vars

(***************************************************************************)
(* The scoring engine applied on its own to snapshots.                     *)
(***************************************************************************)

\* Texts with no, two and four counted words.
ScoreTexts ==
    { <<>>,
      <<"ko:matjip", "!", "ko:gangnam", "ko:ipnida">>,
      <<"ko:sajin", "ko:matjip", "ko:gangnam", "ko:matjip", "ko:kape">> }

\* Snapshots: lengths and counts below, at and above the points where the
\* categories change; menus with none, half or most of them described.
Snapshots ==
    { [directionsLen |-> d, storeInfoLen |-> i, receiptReviewCount |-> rc,
       blogReviewCount |-> bc, menuCount |-> m[1], menuWithDescriptionCount |-> m[2],
       photoCount |-> ph, fullText |-> t] :
        d \in {0, 19, 50, 80}, i \in {0, 299, 600}, rc \in {0, 49, 80, 99, 250},
        bc \in {0, 9, 20, 45},
        m \in {<<0, 0>>, <<1, 0>>, <<1, 1>>, <<3, 0>>, <<3, 1>>, <<3, 2>>},
        ph \in {0, 10}, t \in ScoreTexts }

\* calculateNaverScore (first definition) is called.
ScoreCall(data) ==
    /\ call = NoCall
    /\ call' = [op |-> "calculateNaverScore", data |-> data,
                result |-> calculateNaverScore(data)]
    /\ UNCHANGED <<rq, sc, cache>>

\* calculateNaverScore (second definition) is called.
ScoreCall2(data) ==
    /\ call = NoCall
    /\ call' = [op |-> "calculateNaverScore2", data |-> data,
                result |-> calculateNaverScore2(data)]
    /\ UNCHANGED <<rq, sc, cache>>

\* The metrics of a snapshot that are numbers.
Metrics ==
    {"directionsLen", "storeInfoLen", "receiptReviewCount", "blogReviewCount",
     "menuCount", "menuWithDescriptionCount", "photoCount"}

\* The snapshots that differ from data in one metric only, which is larger:
\* one number, or a fullText that yields more main keywords.
RaisedFrom(data) ==
    {d \in {[data EXCEPT ![f] = v] : f \in Metrics, v \in {1, 3, 2, 10, 19, 50, 80, 299,
                                                           600, 49, 99, 250, 9, 20, 45}} :
        d \in Snapshots /\ \E f \in Metrics : d[f] > data[f]}
    \cup {[data EXCEPT !.fullText = t] : t \in {x \in ScoreTexts : Len(x) > Len(data.fullText)}}

\* Both definitions of calculateNaverScore are called on a snapshot and on
\* one with a single metric raised.
ScoreRaised(data, raised) ==
    /\ call = NoCall
    /\ call' = [op |-> "scoreRaised", data |-> data, raised |-> raised,
                first |-> <<calculateNaverScore(data), calculateNaverScore(raised)>>,
                second |-> <<calculateNaverScore2(data), calculateNaverScore2(raised)>>]
    /\ UNCHANGED <<rq, sc, cache>>

\* The snapshots a call can be made on: one call is made in a behaviour.
Unscored == IF call = NoCall THEN Snapshots ELSE {}

NextScore ==
    \/ \E data \in Unscored : ScoreCall(data)
    \/ \E data \in Unscored : ScoreCall2(data)
    \/ \E data \in Unscored : \E raised \in RaisedFrom(data) : ScoreRaised(data, raised)

ScoreSpec == Init /\ [][NextScore]_vars

(***************************************************************************)
(* The snapshot builders applied on their own to pages of every size.      *)
(***************************************************************************)

\* Headings: the fallback, a name, and headings that hold a long text.
SnapshotTitles ==
    {<<"Unknown", 7>>, <<"ko:sikdang", 2>>, <<"ko:gin jemok", 300>>, <<"ko:bonmun", 70000>>}

\* Pages whose texts are below, at and above every cap.
SnapshotPages ==
    { [bodyLen |-> b, title |-> t[1], titleLen |-> t[2], words |-> w,
       receipt |-> 120, blog |-> 45, descLen |-> d, dirLen |-> d \div 2,
       menus |-> 3, described |-> 1] :
        b \in {0, 600, 9000, 9001, 15000, 15001, 60000, 70000},
        t \in SnapshotTitles,
        d \in {0, 400, 5000, 80000},
        w \in {<<>>, <<"ko:sajin", "ko:matjip">>} }

\* The first definition of scrapeNaverPlace builds its snapshot of a page.
SnapshotCall(page) ==
    /\ call = NoCall
    /\ call' = [op |-> "snapshot", page |-> page, result |-> SnapshotOf(page)]
    /\ UNCHANGED <<rq, sc, cache>>

\* The second definition of scrapeNaverPlace builds its snapshot of a page.
SnapshotCall2(page) ==
    /\ call = NoCall
    /\ call' = [op |-> "snapshot2", page |-> page, result |-> SnapshotOf2(page)]
    /\ UNCHANGED <<rq, sc, cache>>

NextSnapshot ==
    \/ \E page \in SnapshotPages : SnapshotCall(page)
    \/ \E page \in SnapshotPages : SnapshotCall2(page)

SnapshotSpec == Init /\ [][NextSnapshot]_vars

(***************************************************************************)
(* The live pipeline: scrapeNaverPlace (first definition) feeding          *)
(* calculateNaverScore (first definition).                                 *)
(***************************************************************************)

\* The texts of a page: with and without a photo word, with fewer than three
\* and with three counted words.
PipelineTexts ==
    { <<>>,
      <<"ko:sajin">>,
      <<"ko:matjip", "ko:gangnam", "ko:kape">>,
      <<"ko:sajin", "ko:matjip", "ko:gangnam", "ko:matjip", "ko:kape">> }

\* Rendered pages on both sides of every test of the pipeline: the length
\* the wait asks for, the caps of the texts, and the review counts at which
\* calculateNaverScore adds points.
PipelinePages ==
    { [bodyLen |-> b, title |-> "ko:sikdang", titleLen |-> 2, words |-> w,
       receipt |-> rc, blog |-> bc] :
        b \in {0, 500, 501, 9001, 70000},
        w \in PipelineTexts,
        rc \in {0, 50, 51, 120},
        bc \in {0, 10, 11, 45} }

\* What the handler gets for a page: the analysis of the snapshot, or no
\* analysis when the wait for the content fails.
LivePipeline(page) ==
    IF ContentStable(page)
    THEN [ok |-> TRUE, analysis |-> calculateNaverScore(SnapshotOf(page))]
    ELSE [ok |-> FALSE, analysis |-> [score |-> 0, grade |-> "none"]]

\* The pipeline runs on one page.
PipelineCall(page) ==
    /\ call = NoCall
    /\ call' = [op |-> "pipeline", page |-> page, result |-> LivePipeline(page)]
    /\ UNCHANGED <<rq, sc, cache>>

\* The pipeline runs on every page in turn; the grades and scores of the
\* diagnoses it gives are collected.
PipelineSurvey ==
    /\ call = NoCall
    /\ LET given == {LivePipeline(page) : page \in PipelinePages}
           diagnoses == {g.analysis : g \in {x \in given : x.ok}}
       IN  call' = [op |-> "survey",
                    grades |-> {d.grade : d \in diagnoses},
                    scores |-> {d.score : d \in diagnoses}]
    /\ UNCHANGED <<rq, sc, cache>>

NextPipeline ==
    \/ \E page \in PipelinePages : PipelineCall(page)
    \/ PipelineSurvey

PipelineSpec == Init /\ [][NextPipeline]_vars

(***************************************************************************)
(* The keyword extractor applied on its own to texts.                      *)
(***************************************************************************)

\* Words that are counted: more words than main and sub can hold.
Words ==
    <<"ko:matjip", "ko:gangnam", "ko:sajin", "ko:kape", "ko:jucha", "ko:yeyak",
      "ko:bunwigi", "ko:jeomsim", "ko:jeonyeok", "ko:dijeoteu", "wifi", "menu",
      "ko:danche", "ko:pojang">>

\* What a text goes on with: punctuation, a piece of one character,
\* stopwords of one and of several characters, a stopword of the second
\* definition only, numbers, and words of the beginning again.
TailAtoms ==
    {"!", "a", "ko:mit", "ko:haneun", "ko:ipnida", "2024", "678", "ko:sajin", "ko:pojang"}

\* The most pieces a text has after its leading words.
MaxTail == 2

RECURSIVE SeqsUpTo(_, _)
SeqsUpTo(S, n) ==
    IF n = 0 THEN {<<>>}
    ELSE LET shorter == SeqsUpTo(S, n - 1)
         IN  shorter \cup {Append(t, a) : t \in shorter, a \in S}

\* Arguments of extractKeywords: the empty text included.
KeywordTexts ==
    {SubSeq(Words, 1, n) \o tail : n \in 0..Len(Words), tail \in SeqsUpTo(TailAtoms, MaxTail)}

\* extractKeywords (first definition) is called.
KeywordsCall(text) ==
    /\ call = NoCall
    /\ call' = [op |-> "extractKeywords", text |-> text, result |-> extractKeywords(text)]
    /\ UNCHANGED <<rq, sc, cache>>

\* extractKeywords (second definition) is called.
KeywordsCall2(text) ==
    /\ call = NoCall
    /\ call' = [op |-> "extractKeywords2", text |-> text, result |-> extractKeywords2(text)]
    /\ UNCHANGED <<rq, sc, cache>>

NextKeywords ==
    \/ \E text \in KeywordTexts : KeywordsCall(text)
    \/ \E text \in KeywordTexts : KeywordsCall2(text)

KeywordSpec == Init /\ [][NextKeywords]_vars

(***************************************************************************)
(* Properties of the candidate loop                                        *)
(***************************************************************************)

Attempts == 1..MaxCandidates

\* scrapeNaverPlace was called for the k-th candidate of r.
Started(r, k) == sc[r][k].stage # "NONE"

\* The k-th attempt of r won its race with a snapshot.
Succeeded(r, k) == sc[r][k].stage = "CLOSED" /\ ~sc[r][k].lost /\ sc[r][k].err = ""

\* The k-th attempt of r won its race with an error of scrapeNaverPlace.
FailedInTime(r, k) == sc[r][k].stage = "CLOSED" /\ ~sc[r][k].lost /\ sc[r][k].err # ""

\* C1: all attempts of one request share one deadline: the candidate loop
\* never lasts longer than the 55 seconds of one timer.
C1_SharedDeadline == \A r \in Requests : rq[r].elapsed <= TimeoutTicks

\* C2: once the timer has fired during an attempt, no later candidate is
\* attempted and the request has ended with 504 TIMEOUT.
C2_TimeoutEndsRequest ==
    \A r \in Requests, k \in Attempts :
        sc[r][k].lost =>
            /\ \A j \in Attempts : j > k => ~Started(r, j)
            /\ rq[r].pc = "done"
            /\ rq[r].status = 504

\* Every candidate of r was attempted and failed with an error other than a
\* timeout.
AllFailedInTime(r) ==
    /\ rq[r].candidates # <<>>
    /\ \A k \in 1..Len(rq[r].candidates) : FailedInTime(r, k)

\* C3: when every candidate's attempt failed with a non-timeout error, the
\* request has ended with 500 SCRAPE_FAILED and the detail is the error of the
\* last candidate.
C3_LastErrorReported ==
    \A r \in Requests :
        AllFailedInTime(r) =>
            LET n == Len(rq[r].candidates)
            IN  /\ rq[r].pc = "done"
                /\ rq[r].status = 500
                /\ rq[r].body.error = "SCRAPE_FAILED"
                /\ rq[r].body.debug.errorOf = n
                /\ rq[r].body.debug.message = ScrapeError(n, sc[r][n].err).detail

C3_ThreeFailures ==
    \E r \in Requests :
        /\ Len(rq[r].candidates) = 3
        /\ AllFailedInTime(r)
        /\ sc[r][1].err # sc[r][3].err

\* C4: candidates are attempted in list order, one at a time; the first
\* attempt that succeeds ends the loop, and the 200 answer names its
\* candidate as scrapeUrl.
C4_FirstSuccessStops ==
    \A r \in Requests, k \in Attempts :
        /\ Started(r, k) =>
              /\ k <= Len(rq[r].candidates)
              /\ \A j \in 1..(k - 1) : (sc[r][j].lost \/ FailedInTime(r, j))
        /\ Succeeded(r, k) =>
              /\ \A j \in Attempts : j > k => ~Started(r, j)
              /\ rq[r].pc = "done"
              /\ rq[r].status = 200
              /\ rq[r].body.scrapeUrl = rq[r].candidates[k]

C4_SecondOfThreeSucceeds ==
    \E r \in Requests :
        /\ Len(rq[r].candidates) = 3
        /\ FailedInTime(r, 1)
        /\ Succeeded(r, 2)
        /\ rq[r].status = 200

\* C5: at most one browser session of a request is open at any moment.
C5_OneSessionAtATime ==
    \A r \in Requests : Cardinality({k \in Attempts : sc[r][k].browser}) <= 1

\* C6: every browser session opened by a scrape is eventually closed,
\* whether the scrape returns, fails at any stage or lost its race.
C6_SessionsEventuallyClosed ==
    \A r \in Requests, k \in Attempts : sc[r][k].browser ~> ~sc[r][k].browser

\* An abandoned scrape that had launched a browser has closed it.
C6_AbandonedSessionClosed ==
    \E r \in Requests, k \in Attempts :
        /\ sc[r][k].lost
        /\ sc[r][k].stage = "CLOSED"
        /\ sc[r][k].err \in {"page.goto", "page.waitForFunction", "page.evaluate"}
        /\ ~sc[r][k].browser

(***************************************************************************)
(* Properties of the result cache                                          *)
(***************************************************************************)

ErrorStatuses == {400, 422, 500, 504}

\* The step ends the request r.
Ends(r) == rq[r].pc # "done" /\ rq'[r].pc = "done"

\* The step stores something under key x.
Written(x) ==
    /\ x \in DOMAIN cache'
    /\ \/ x \notin DOMAIN cache
       \/ cache'[x].value # cache[x].value
       \/ cache'[x].left > cache[x].left

\* C7: a step that ends a request with 400, 422, 500 or 504 leaves the cache
\* unchanged, and a step that stores an entry ends a request with 200 whose
\* identifier was resolved, whose current attempt succeeded and whose
\* response, score included, is the stored value.
C7_CacheWrittenOnlyOnSuccess ==
    [][ /\ \A r \in Requests :
              Ends(r) /\ rq'[r].status \in ErrorStatuses => cache' = cache
        /\ \A x \in DOMAIN cache' :
              Written(x) =>
                \E r \in Requests :
                    /\ Ends(r)
                    /\ rq'[r].status = 200
                    /\ ~rq'[r].hit
                    /\ Truthy(rq[r].resolved.placeId)
                    /\ x = CacheKey(rq[r].resolved.placeId)
                    /\ sc'[r][rq[r].idx].stage = "CLOSED"
                    /\ sc'[r][rq[r].idx].err = ""
                    /\ ~sc'[r][rq[r].idx].lost
                    /\ rq'[r].body.score = Analysis[rq'[r].body.metrics].score
                    /\ cache'[x].value = rq'[r].body
      ]_vars

\* One request stored its answer and another one for the same identifier
\* failed; the entry is the answer of the first.
C7_FailureBesideEntry ==
    \E r \in Requests, q \in Requests :
        /\ rq[r].pc = "done" /\ rq[r].status \in {500, 504}
        /\ rq[q].pc = "done" /\ rq[q].status = 200 /\ rq[q].wrote
        /\ rq[r].resolved.placeId = rq[q].resolved.placeId
        /\ DOMAIN cache = {CacheKey(rq[q].resolved.placeId)}
        /\ cache[CacheKey(rq[q].resolved.placeId)].value = rq[q].body

\* The step in which r reads the cache: resolveNaverPlaceUrl has returned an
\* identifier.
ReadsCache(r) ==
    /\ rq[r].pc \in {"idle", "resolving"}
    /\ rq'[r].pc \notin {"idle", "resolving"}
    /\ ~rq'[r].resolved.threw
    /\ Truthy(rq'[r].resolved.placeId)

\* The requests that completed successfully for the identifier r resolves
\* to in this step, not longer ago than the TTL.
FreshWriters(r) ==
    {q \in Requests \ {r} :
        /\ rq[q].wrote
        /\ rq[q].resolved.placeId = rq'[r].resolved.placeId
        /\ rq[q].sinceWrite <= TTLTicks}

\* C8: a request reading the cache for an identifier some earlier request
\* completed successfully within the TTL is answered 200 with that request's
\* result and never starts a scrape; with no such request (none at all, or the
\* TTL has elapsed) it starts the scrape of its first candidate.
C8_CachedWithinTTL ==
    [][ /\ \A r \in Requests :
              ReadsCache(r) =>
                IF FreshWriters(r) # {}
                THEN /\ rq'[r].pc = "done"
                     /\ rq'[r].status = 200
                     /\ rq'[r].hit
                     /\ \E q \in FreshWriters(r) : rq'[r].body = rq[q].body
                ELSE /\ rq'[r].pc = "attempt"
                     /\ ~rq'[r].hit
                     /\ sc'[r][1].stage = "INIT"
        /\ \A r \in Requests :
              rq'[r].hit => \A k \in Attempts : sc'[r][k] = NoScrape
      ]_vars

\* A request was answered from the entry another request wrote a while ago.
C8_AnsweredFromCache ==
    \E r \in Requests, q \in Requests :
        /\ rq[r].hit /\ rq[r].status = 200
        /\ rq[q].wrote /\ rq[q].sinceWrite >= 1
        /\ rq[r].body = rq[q].body
        /\ \A k \in Attempts : ~Started(r, k)

\* C9: no step changes the value or extends the life of an entry that is
\* not expired.
C9_NeverUpdatedInPlace ==
    [][ \A x \in DOMAIN cache :
            ~Expired(cache[x]) =>
                /\ x \in DOMAIN cache'
                /\ cache'[x].value = cache[x].value
                /\ cache'[x].left <= cache[x].left
      ]_vars

(***************************************************************************)
(* Properties of the resolver                                              *)
(***************************************************************************)

\* C10: resolveNaverPlaceUrl never throws and its result always carries a
\* canonicalUrl (a non-empty one unless the normalized input is empty); when
\* the outbound GET is made and fails, placeId is null and canonicalUrl is
\* the normalized input.
C10_ResolveNeverThrows ==
    call.op = "resolveNaverPlaceUrl" =>
        LET normalized == normalizeUrl(call.input)
            getFailed == ~ResolvesDirectly(call.input) /\ ~call.get.ok
        IN  /\ ~call.result.threw
            /\ call.result.canonicalUrl # NULL
            /\ normalized # <<>> => Truthy(call.result.canonicalUrl)
            /\ getFailed => /\ call.result.placeId = NULL
                            /\ call.result.canonicalUrl = normalized

C10_GetFailed ==
    /\ call.op = "resolveNaverPlaceUrl"
    /\ ~ResolvesDirectly(call.input)
    /\ ~call.get.ok
    /\ normalizeUrl(call.input) # <<>>
    /\ call.input # normalizeUrl(call.input)
    /\ call.result.placeId = NULL
    /\ call.result.canonicalUrl = normalizeUrl(call.input)

\* C11: when a resolved target has an identifier, resolving its canonicalUrl
\* again returns the same identifier without an outbound request: the direct
\* match applies, and the result does not depend on how a GET would end.
C11_ResolveIdempotent ==
    call.op = "resolveAgain" /\ Truthy(call.first.placeId) =>
        /\ ResolvesDirectly(call.first.canonicalUrl)
        /\ ~call.result.threw
        /\ call.result.placeId = call.first.placeId
        /\ call.result.canonicalUrl = call.first.canonicalUrl

\* The first call found 678 in the page body; the GET of a second call would
\* have been redirected to the listing 12345.
C11_SecondGetWouldDiffer ==
    /\ call.op = "resolveAgain"
    /\ ~ResolvesDirectly(call.input)
    /\ call.first.placeId = <<"678">>
    /\ call.again.ok /\ call.again.hasRes
    /\ extractPlaceIdFromUrl(call.again.responseUrl) = <<"12345">>
    /\ call.result.placeId = <<"678">>

(***************************************************************************)
(* Properties of the candidate builder                                     *)
(***************************************************************************)

\* C12: the list buildMobileScrapeCandidates returns has no duplicates, is
\* empty when the identifier is null and non-empty otherwise, for every type
\* hint.
C12_CandidatesDistinct ==
    call.op = "buildMobileScrapeCandidates" =>
        /\ \A i, j \in 1..Len(call.result) : i # j => call.result[i] # call.result[j]
        /\ call.placeId = NULL => call.result = <<>>
        /\ call.placeId # NULL => call.result # <<>>

\* The hint is the default type: two URLs are left of the three pushed.
C12_DuplicateRemoved ==
    /\ call.op = "buildMobileScrapeCandidates"
    /\ call.placeId = <<"12345">>
    /\ call.typeHint = <<"restaurant">>
    /\ Len(call.result) = 2

\* The listing URL of a type for an identifier, written out.
ListingUrl(type, id) == <<"https://", "m.place.naver.com", "/", type, "/", id>>

\* C13: for a non-null identifier the list is the type-hinted URL (when there
\* is a hint), the generic URL and the default-type URL, in this order, with
\* a later duplicate of the hinted URL removed.
C13_CandidateOrder ==
    call.op = "buildMobileScrapeCandidates" /\ call.placeId # NULL =>
        LET id == call.placeId[1]
            generic == ListingUrl("place", id)
            default == ListingUrl("restaurant", id)
        IN  CASE call.typeHint = NULL -> call.result = <<generic, default>>
              [] call.typeHint = <<"place">> -> call.result = <<generic, default>>
              [] call.typeHint = <<"restaurant">> -> call.result = <<default, generic>>
              [] OTHER ->
                    call.result = <<ListingUrl(call.typeHint[1], id), generic, default>>

C13_HintedFirstOfThree ==
    /\ call.op = "buildMobileScrapeCandidates"
    /\ call.placeId = <<"678">>
    /\ call.typeHint = <<"hairshop">>
    /\ call.result = <<ListingUrl("hairshop", "678"), ListingUrl("place", "678"),
                       ListingUrl("restaurant", "678")>>

(***************************************************************************)
(* Properties of the handler's early answers                               *)
(***************************************************************************)

\* Resolution has returned to the handler of r without an identifier.
NoIdentifier(r) ==
    /\ rq[r].resolved # NoResolved
    /\ ~rq[r].resolved.threw
    /\ ~Truthy(rq[r].resolved.placeId)

\* C14: when resolution yields no identifier the request has ended with 422
\* PLACE_ID_NOT_FOUND, none of its candidates was scraped, and it has called
\* neither diagnosisCache.get nor diagnosisCache.set.
C14_NoIdentifierEnds422 ==
    \A r \in Requests :
        NoIdentifier(r) =>
            /\ rq[r].pc = "done"
            /\ rq[r].status = 422
            /\ rq[r].body.error = "PLACE_ID_NOT_FOUND"
            /\ \A k \in Attempts : sc[r][k] = NoScrape
            /\ ~rq[r].read /\ ~rq[r].hit /\ ~rq[r].wrote

\* A request ended with 422 while the cache held an entry of another one.
C14_NotFoundBesideEntry ==
    \E r \in Requests, q \in Requests :
        /\ NoIdentifier(r)
        /\ rq[r].status = 422
        /\ rq[q].wrote
        /\ cache # <<>>

\* Hosts of the listing platform.
ListingHosts ==
    {"naver.me", "map.naver.com", "m.place.naver.com", "pcmap.place.naver.com",
     "naver.net"}

\* The host of a normalized url: the piece after the scheme.
HostOf(input) == IF Len(input) >= 2 THEN input[2] ELSE ""

\* C15: a request whose url is empty or whose host is no listing-platform
\* host has ended with 400 INVALID_URL: it never waits for an outbound
\* resolution request and none of its candidates is scraped.
C15_ForeignHostRejected ==
    \A r \in Requests :
        rq[r].pc # "idle" /\ HostOf(rq[r].input) \notin ListingHosts =>
            /\ rq[r].pc = "done"
            /\ rq[r].status = 400
            /\ rq[r].body.error = "INVALID_URL"
            /\ \A k \in Attempts : sc[r][k] = NoScrape

(***************************************************************************)
(* Properties of the scoring engine                                        *)
(***************************************************************************)

Scored == call.op \in {"calculateNaverScore", "calculateNaverScore2"}

\* C16: the total score is between 0 and 100, and every breakdown item has
\* 0 <= score <= max.
C16_ScoreInRange ==
    Scored =>
        /\ call.result.score >= 0
        /\ call.result.score <= 100
        /\ \A i \in 1..Len(call.result.breakdown) :
              /\ call.result.breakdown[i].score >= 0
              /\ call.result.breakdown[i].score <= call.result.breakdown[i].max

\* Every category is at its cap, with counts far above where the cap is met.
C16_AllCapsMet ==
    /\ call.op = "calculateNaverScore2"
    /\ call.data.receiptReviewCount = 250
    /\ call.data.directionsLen = 80
    /\ call.result.score = 100
    /\ \A i \in 1..Len(call.result.breakdown) :
          call.result.breakdown[i].score = call.result.breakdown[i].max

\* C17: the grade is fixed by the total score: S from 90, A from 70 to 89,
\* B from 50 to 69, C from 30 to 49, D below 30.
C17_GradeBands ==
    Scored =>
        LET score == call.result.score
            grade == call.result.grade
        IN  /\ grade = "S" <=> score >= 90
            /\ grade = "A" <=> score >= 70 /\ score <= 89
            /\ grade = "B" <=> score >= 50 /\ score <= 69
            /\ grade = "C" <=> score >= 30 /\ score <= 49
            /\ grade = "D" <=> score < 30

C17_NinetyIsS ==
    /\ call.op = "calculateNaverScore2"
    /\ call.result.score = 90
    /\ call.result.grade = "S"

\* C18: raising one metric of a snapshot and keeping the others never lowers
\* the total score.
C18_ScoreMonotonic ==
    call.op = "scoreRaised" =>
        /\ call.first[2].score >= call.first[1].score
        /\ call.second[2].score >= call.second[1].score

\* The scored snapshot has 600 characters of store info, 80 visit reviews,
\* 20 blog reviews, no menu, photoCount 10, no directions and 4 main keywords.
Scenario ==
    /\ call.op = "calculateNaverScore2"
    /\ call.data.storeInfoLen = 600
    /\ call.data.receiptReviewCount = 80
    /\ call.data.blogReviewCount = 20
    /\ call.data.menuCount = 0
    /\ call.data.photoCount = 10
    /\ call.data.directionsLen = 0
    /\ Len(call.result.keywords.main) = 4

\* C19: for the scenario's snapshot the breakdown is directions 0, info 25,
\* review 25, menu 0, photo/keyword 10, the total is 60 and the grade is B.
C19_ScenarioBreakdown ==
    Scenario =>
        /\ call.result.breakdown[1].score = 0
        /\ call.result.breakdown[2].score = 25
        /\ call.result.breakdown[3].score = 25
        /\ call.result.breakdown[4].score = 0
        /\ call.result.breakdown[5].score = 10
        /\ call.result.score = 60
        /\ call.result.grade = "B"

\* The recommendations that speak of the menu.
MenuSuggestions == {"describe every menu", "improve info, menu and photos"}

\* C20: for a snapshot with menuCount 0 the recommendations include a
\* suggestion about the menu.
C20_MenuSuggested ==
    call.op = "calculateNaverScore2" /\ call.data.menuCount = 0 =>
        \E i \in 1..Len(call.result.recommendations) :
            call.result.recommendations[i] \in MenuSuggestions

(***************************************************************************)
(* Abbreviated-number parser (parseIgNumber)                               *)
(*                                                                         *)
(* Here a string is the sequence of its characters.  A number is written   *)
(* [m, e] for m * 10^e, with m not a multiple of 10 unless it is 0: the    *)
(* products with 1000000000 do not fit 32 bits.                            *)
(***************************************************************************)

DigitChars == {"0", "1", "2", "3", "4", "5", "6", "7", "8", "9"}

DigitValue(c) ==
    CASE c = "0" -> 0 [] c = "1" -> 1 [] c = "2" -> 2 [] c = "3" -> 3 [] c = "4" -> 4
      [] c = "5" -> 5 [] c = "6" -> 6 [] c = "7" -> 7 [] c = "8" -> 8 [] c = "9" -> 9

RECURSIVE DecimalValue(_)
DecimalValue(digits) ==
    IF digits = <<>> THEN 0
    ELSE 10 * DecimalValue(SubSeq(digits, 1, Len(digits) - 1)) + DigitValue(digits[Len(digits)])

RECURSIVE Pow10(_)
Pow10(k) == IF k = 0 THEN 1 ELSE 10 * Pow10(k - 1)

RECURSIVE Norm(_, _)
Norm(m, e) ==
    IF m = 0 THEN [m |-> 0, e |-> 0]
    ELSE IF m % 10 = 0 THEN Norm(m \div 10, e + 1)
    ELSE [m |-> m, e |-> e]

Zero == [m |-> 0, e |-> 0]

\* String.prototype.toLowerCase, character by character.
LowerChar(c) ==
    CASE c = "K" -> "k" [] c = "M" -> "m" [] c = "B" -> "b" [] OTHER -> c

\* .replace(/,/g, "").replace(/\s/g, "").toLowerCase()
CleanIg(str) ==
    LET kept == SelectSeq(str, LAMBDA c : c \notin {",", " "})
    IN  [i \in 1..Len(kept) |-> LowerChar(kept[i])]

\* The last position of the run of digits that starts at j (j - 1 if there
\* is none).
DigitsEnd(s, j) ==
    Min({i \in j..(Len(s) + 1) : i = Len(s) + 1 \/ s[i] \notin DigitChars}) - 1

\* parseFloat on a string without leading whitespace, exponent or the word
\* Infinity: the longest prefix that is a sign, digits, a point and digits,
\* with a digit on at least one side of the point.  The value is
\* n / 10^d, negated if neg.
parseFloat(s) ==
    LET start == IF s # <<>> /\ s[1] = "-" THEN 2 ELSE 1
        intEnd == DigitsEnd(s, start)
        hasPoint == intEnd + 1 <= Len(s) /\ s[intEnd + 1] = "."
        fracEnd == IF hasPoint THEN DigitsEnd(s, intEnd + 2) ELSE intEnd
        digits == SubSeq(s, start, intEnd)
                  \o (IF hasPoint THEN SubSeq(s, intEnd + 2, fracEnd) ELSE <<>>)
    IN  [nan |-> digits = <<>>,
         n |-> IF start = 2 THEN 0 - DecimalValue(digits) ELSE DecimalValue(digits),
         d |-> IF hasPoint THEN fracEnd - (intEnd + 1) ELSE 0]

\* isNaN(num) ? 0 : Math.floor(num * 10^zeros).  On the strings of IgStrings
\* the product in doubles and the exact product have the same floor.
FloorTimes(num, zeros) ==
    IF num.nan THEN Zero
    ELSE IF zeros >= num.d THEN Norm(num.n, zeros - num.d)
    ELSE Norm(num.n \div Pow10(num.d - zeros), 0)

\* The first occurrence of c removed: String.prototype.replace with a
\* string pattern.
ReplaceFirst(s, c) ==
    LET at == Min({i \in 1..Len(s) : s[i] = c})
    IN  SubSeq(s, 1, at - 1) \o SubSeq(s, at + 1, Len(s))

HasChar(s, c) == \E i \in 1..Len(s) : s[i] = c

\* parseIgNumber (first definition): the last of the three tests that
\* succeeds sets the multiplier, and every k, m and b is removed.
parseIgNumber(str) ==
    IF ~Truthy(str) THEN Zero
    ELSE LET clean == CleanIg(str)
             zeros == IF HasChar(clean, "b") THEN 9
                      ELSE IF HasChar(clean, "m") THEN 6
                      ELSE IF HasChar(clean, "k") THEN 3
                      ELSE 0
         IN  FloorTimes(parseFloat(SelectSeq(clean, LAMBDA c : c \notin {"k", "m", "b"})),
                        zeros)

\* parseIgNumber (second definition): the first test that succeeds sets the
\* multiplier and removes the first such letter.
parseIgNumber2(str) ==
    IF ~Truthy(str) THEN Zero
    ELSE LET clean == CleanIg(str)
         IN  IF HasChar(clean, "k") THEN FloorTimes(parseFloat(ReplaceFirst(clean, "k")), 3)
             ELSE IF HasChar(clean, "m") THEN FloorTimes(parseFloat(ReplaceFirst(clean, "m")), 6)
             ELSE IF HasChar(clean, "b") THEN FloorTimes(parseFloat(ReplaceFirst(clean, "b")), 9)
             ELSE FloorTimes(parseFloat(clean), 0)

\* Characters of the arguments: digits, the point, the separator, a blank,
\* suffix letters in both cases, a letter that is no suffix, and the sign.
IgChars == {"1", "5", ".", ",", "k", "M", "b", " ", "x", "-"}

\* The most characters an argument has.
MaxChars == 4

\* Arguments of parseIgNumber: null, the empty string and the strings of up
\* to MaxChars characters.
IgStrings == {NULL} \cup SeqsUpTo(IgChars, MaxChars)

\* parseIgNumber (first definition) is called; neither definition has a
\* statement that throws on a string or on null.
IgCall(str) ==
    /\ call = NoCall
    /\ call' = [op |-> "parseIgNumber", str |-> str, threw |-> FALSE,
                result |-> parseIgNumber(str)]
    /\ UNCHANGED <<rq, sc, cache>>

\* parseIgNumber (second definition) is called.
IgCall2(str) ==
    /\ call = NoCall
    /\ call' = [op |-> "parseIgNumber2", str |-> str, threw |-> FALSE,
                result |-> parseIgNumber2(str)]
    /\ UNCHANGED <<rq, sc, cache>>

NextIg ==
    \/ \E str \in IgStrings : IgCall(str)
    \/ \E str \in IgStrings : IgCall2(str)

IgSpec == Init /\ [][NextIg]_vars

(***************************************************************************)
(* The social-profile endpoint (GET /api/diagnosis/instagram)              *)
(*                                                                         *)
(* call holds the handler invocation: its position pc, the username, the   *)
(* outcome of the outbound GET, the response, and whether                  *)
(* diagnosisCache.set was called.  Requests are served one after another   *)
(* by one definition of the handler.                                       *)
(***************************************************************************)

\* The number a parsed count stands for; the counts used are below 2^31.
IgValue(x) == x.m * Pow10(x.e)

\* Math.log10 of a power of ten.
Log10(x) == CASE x.m = 1 -> x.e

AtMostOf(cap, x) == IF x < cap THEN x ELSE cap

\* calculateScore on counts that are 0 or powers of ten; the tips are given
\* by English tags.
calculateScore(followers, posts, following) ==
    LET f == IgValue(followers)
        p == IgValue(posts)
        g == IgValue(following)
        score == AtMostOf(100,
                     (IF f > 0 THEN AtMostOf(40, Log10(followers) * 10) ELSE 0)
                     + (IF p > 0 THEN AtMostOf(40, Log10(posts) * 15) ELSE 0)
                     + (IF f > g THEN 10 ELSE 0)
                     + (IF p > 10 THEN 10 ELSE 0))
        grade == IF score >= 90 THEN "S"
                 ELSE IF score >= 75 THEN "A"
                 ELSE IF score >= 50 THEN "B"
                 ELSE IF score >= 25 THEN "C"
                 ELSE "D"
        tips == Recommend(<< <<p = 0, "no posts">>,
                             <<p # 0 /\ p < 10, "few posts">>,
                             <<f < 100, "new account">>,
                             <<g > f, "too many followings">>,
                             <<grade \in {"S", "A"}, "well optimized">> >>)
        tags == IF tips = <<>> THEN <<"keep going">>
                ELSE [i \in 1..Len(tips) |-> tips[i][2]]
    IN  [score |-> score, grade |-> grade,
         tips |-> SubSeq(tags, 1, IF Len(tags) < 3 THEN Len(tags) ELSE 3)]

\* req.query.username: missing, and handles in several spellings.
IgNames == {NULL, <<"shop">>, <<"Shop", " ">>, <<"ghost">>}

\* What the pattern captures from the og:description: followers, following
\* and posts.
IgCaptures ==
    { << <<"1", "k">>, <<"1", "0">>, <<"1", "0", "0">> >>,
      << <<"1", "0">>, <<"1", "K">>, <<"0">> >> }

\* Outcomes of the outbound GET: a rejection with a response of status 404
\* or 500 or without a response (status 0), and pages without an
\* og:description (with the title of the not-found page or another one),
\* with one the pattern does not match, and with one it matches.
IgFetches ==
    { [ok |-> FALSE, status |-> st, hasMeta |-> FALSE, title |-> "", matches |-> FALSE,
       groups |-> <<>>] : st \in {404, 500, 0} }
    \cup { [ok |-> TRUE, status |-> 200, hasMeta |-> FALSE, title |-> t, matches |-> FALSE,
            groups |-> <<>>] : t \in {"Page Not Found", "Login"} }
    \cup { [ok |-> TRUE, status |-> 200, hasMeta |-> TRUE, title |-> "Profile",
            matches |-> FALSE, groups |-> <<>>] }
    \cup { [ok |-> TRUE, status |-> 200, hasMeta |-> TRUE, title |-> "Profile",
            matches |-> TRUE, groups |-> g] : g \in IgCaptures }

NoFetch == [ok |-> FALSE, status |-> 0, hasMeta |-> FALSE, title |-> "", matches |-> FALSE,
            groups |-> <<>>]

IgOps == {"instagram", "instagram2"}

\* The handler invocation after res.status(status).json(body).
IgRespond(c, status, body) == [c EXCEPT !.pc = "done", !.status = status, !.body = body]

\* A request arrives at the handler: up to the answer from the cache or to
\* the await of the outbound GET.
IgEnter(op, username) ==
    LET c == [op |-> op, pc |-> "fetch", username |-> username, fetched |-> FALSE,
              fetch |-> NoFetch, status |-> 0, body |-> [success |-> FALSE], wrote |-> FALSE]
        name == IF op = "instagram" \/ ~Truthy(username) THEN username
                ELSE ToLower(Trim(username))
        got == CacheGet(cache, <<"ig_">> \o name)
    IN  IF ~Truthy(username)
        THEN IF op = "instagram" THEN IgRespond(c, 400, [success |-> FALSE])
             ELSE IgRespond(c, 400, [success |-> FALSE, message |-> "enter a username"])
        ELSE IF got.found
        THEN IgRespond(c, 200, [success |-> TRUE, source |-> "cache", data |-> got.value])
        ELSE c

IgArrive(op, username) ==
    /\ call = NoCall \/ (call.op = op /\ call.pc = "done")
    /\ call' = IgEnter(op, username)
    /\ UNCHANGED <<rq, sc, cache>>

\* The first definition after its outbound GET: the data that is cached and
\* the response.
IgAfterGet(c, fetch) ==
    IF fetch.ok /\ fetch.hasMeta /\ fetch.matches
    THEN LET data == [followers |-> parseIgNumber(fetch.groups[1]),
                      following |-> parseIgNumber(fetch.groups[2]),
                      posts |-> parseIgNumber(fetch.groups[3])]
         IN  [set |-> TRUE, data |-> data,
              c |-> IgRespond([c EXCEPT !.wrote = TRUE], 200,
                              [success |-> TRUE, source |-> "live", data |-> data])]
    ELSE [set |-> FALSE, data |-> NoBody, c |-> IgRespond(c, 503, [success |-> FALSE])]

\* The second definition after its outbound GET.
IgAfterGet2(c, fetch) ==
    LET Fail(status, message) ==
            [set |-> FALSE, data |-> NoBody,
             c |-> IgRespond(c, status, [success |-> FALSE, message |-> message])]
        name == ToLower(Trim(c.username))
    IN  IF ~fetch.ok
        THEN IF fetch.status = 404 THEN Fail(404, "no such account")
             ELSE Fail(503, "temporary connection error")
        ELSE IF ~fetch.hasMeta
        THEN IF fetch.title = "Page Not Found" THEN Fail(404, "account not found")
             ELSE Fail(422, "public data unreadable")
        ELSE IF ~fetch.matches THEN Fail(422, "format not parsed")
        ELSE LET followers == parseIgNumber2(fetch.groups[1])
                 following == parseIgNumber2(fetch.groups[2])
                 posts == parseIgNumber2(fetch.groups[3])
                 scored == calculateScore(followers, posts, following)
                 data == [username |-> name, followers |-> followers,
                          following |-> following, posts |-> posts,
                          score |-> scored.score, grade |-> scored.grade,
                          tips |-> scored.tips,
                          status |-> IF IgValue(posts) > 0 THEN "Active" ELSE "Inactive"]
             IN  [set |-> TRUE, data |-> data,
                  c |-> IgRespond([c EXCEPT !.wrote = TRUE], 200,
                                  [success |-> TRUE, source |-> "live", data |-> data])]

\* The outbound GET ends as fetch and the handler runs to its response.
IgFetched(fetch) ==
    /\ call.op \in IgOps
    /\ call.pc = "fetch"
    /\ LET c == [call EXCEPT !.fetched = TRUE, !.fetch = fetch]
           after == IF call.op = "instagram" THEN IgAfterGet(c, fetch)
                    ELSE IgAfterGet2(c, fetch)
           name == IF call.op = "instagram" THEN call.username
                   ELSE ToLower(Trim(call.username))
       IN  /\ call' = after.c
           /\ cache' = IF after.set THEN CacheSet(cache, <<"ig_">> \o name, after.data)
                        ELSE cache
    /\ UNCHANGED <<rq, sc>>

\* Time passes for the cache between two requests or during the GET.
IgTick ==
    /\ call.op \in IgOps
    /\ \E x \in DOMAIN cache : ~Expired(cache[x])
    /\ cache' = [x \in DOMAIN cache |-> TickEntry(cache[x])]
    /\ UNCHANGED <<rq, sc, call>>

NextInstagram ==
    \/ \E op \in IgOps, username \in IgNames : IgArrive(op, username)
    \/ \E fetch \in IgFetches : IgFetched(fetch)
    \/ IgTick

InstagramSpec == Init /\ [][NextInstagram]_vars

(***************************************************************************)
(* Properties of the keyword extractor                                     *)
(***************************************************************************)

\* An application of either definition of extractKeywords.
Extracted_Keywords ==
    call.op \in {"extractKeywords", "extractKeywords2"}

\* The stopwords of the definition that was applied.
StopWordsOfCall ==
    IF call.op = "extractKeywords2" THEN StopWords2 ELSE StopWords

\* main followed by sub.
KeywordsOfCall == call.result.main \o call.result.sub

\* C21: for any input text, extractKeywords returns main with at most 5
\* entries and sub with at most 7 entries, and no stopword and no token of
\* length 1 or less is in either list.
C21_KeywordLists ==
    Extracted_Keywords =>
        /\ Len(call.result.main) <= 5
        /\ Len(call.result.sub) <= 7
        /\ \A i \in 1..Len(KeywordsOfCall) :
                /\ KeywordsOfCall[i] \notin StopWordsOfCall
                /\ KeywordsOfCall[i] \notin OneCharAtoms \cup PunctuationAtoms

\* A text with more counted words than both lists hold, a stopword and a
\* piece of one character was given, and both lists are full.
C21_FullListsFromStopWords ==
    /\ Extracted_Keywords
    /\ \E i \in 1..Len(call.text) : call.text[i] \in StopWordsOfCall \ OneCharAtoms
    /\ \E i \in 1..Len(call.text) : call.text[i] \in OneCharAtoms
    /\ Len(call.result.main) = 5
    /\ Len(call.result.sub) = 7

\* The position of the first occurrence of t in text.
FirstAt(text, t) == Min({i \in 1..Len(text) : text[i] = t})

\* C22: the keywords (main followed by sub) are in descending order of
\* frequency, and keywords of equal frequency are in the order of their
\* first occurrence in the text, numbers included.
C22_KeywordOrder ==
    Extracted_Keywords =>
        \A i, j \in 1..Len(KeywordsOfCall) :
            i < j =>
                \/ Occurrences(call.text, KeywordsOfCall[i])
                        > Occurrences(call.text, KeywordsOfCall[j])
                \/ /\ Occurrences(call.text, KeywordsOfCall[i])
                        = Occurrences(call.text, KeywordsOfCall[j])
                   /\ FirstAt(call.text, KeywordsOfCall[i])
                        < FirstAt(call.text, KeywordsOfCall[j])

(***************************************************************************)
(* Properties of the abbreviated-number parser                             *)
(***************************************************************************)

\* The argument without separators and whitespace, in lower case.
Bare(str) == CleanIg(str)

\* The argument without its suffix letter, if it ends with one.
NumberPart(str) ==
    LET b == Bare(str)
    IN  IF b # <<>> /\ b[Len(b)] \in {"k", "m", "b"} THEN SubSeq(b, 1, Len(b) - 1) ELSE b

\* The zeros of the multiplier the suffix letter stands for.
SuffixZeros(str) ==
    LET b == Bare(str)
    IN  IF b = <<>> THEN 0
        ELSE CASE b[Len(b)] = "k" -> 3 [] b[Len(b)] = "m" -> 6 [] b[Len(b)] = "b" -> 9
               [] OTHER -> 0

\* The position of the point in a sequence of characters, 0 if none.
PointAt(s) == IF HasChar(s, ".") THEN Min({i \in 1..Len(s) : s[i] = "."}) ELSE 0

\* <number>[kmb]?: digits, or digits, a point and digits, then at most one
\* suffix letter; separators and whitespace anywhere.
WellFormedNumber(str) ==
    /\ str # NULL
    /\ LET s == NumberPart(str)
           p == PointAt(s)
       IN  /\ s # <<>>
           /\ \A i \in 1..Len(s) : s[i] \in DigitChars \/ i = p
           /\ p \notin {1, Len(s)}

\* The number times the multiplier, exactly.
NumberTimesMultiplier(str) ==
    LET s == NumberPart(str)
        p == PointAt(s)
        d == IF p = 0 THEN 0 ELSE Len(s) - p
    IN  Norm(DecimalValue(SelectSeq(s, LAMBDA c : c # ".")), SuffixZeros(str) - d)

\* C23: on a number with optional separators, whitespace and suffix letter
\* parseIgNumber returns the number times the multiplier, on every malformed
\* input it returns 0, and it never throws.
C23_ParsesAbbreviatedNumbers ==
    call.op \in {"parseIgNumber", "parseIgNumber2"} =>
        /\ ~call.threw
        /\ call.result = IF WellFormedNumber(call.str) THEN NumberTimesMultiplier(call.str)
                         ELSE Zero

(***************************************************************************)
(* Properties of the social-profile endpoint                               *)
(***************************************************************************)

\* A request whose outbound GET was made has been answered.
IgAnswered == call.op \in IgOps /\ call.pc = "done" /\ call.fetched

\* The handle does not exist: the upstream says 404 or serves its
\* not-found page.
HandleNotFound(fetch) ==
    \/ ~fetch.ok /\ fetch.status = 404
    \/ fetch.ok /\ ~fetch.hasMeta /\ fetch.title = "Page Not Found"

\* The page was fetched and its expected structure is not there.
StructureUnparsed(fetch) ==
    /\ fetch.ok
    /\ ~HandleNotFound(fetch)
    /\ ~fetch.hasMeta \/ ~fetch.matches

\* The upstream failed to answer, or answered with an error other than 404.
TransientFailure(fetch) == ~fetch.ok /\ fetch.status # 404

\* C24: the social-profile endpoint answers 404 when the handle does not
\* exist, 422 when the fetched page could not be parsed, 503 only for a
\* transient upstream failure, and none of these failures writes the cache.
C24_ProfileFailureStatuses ==
    IgAnswered =>
        /\ HandleNotFound(call.fetch) => call.status = 404
        /\ StructureUnparsed(call.fetch) => call.status = 422
        /\ call.status = 503 => TransientFailure(call.fetch)
        /\ call.status \in {404, 422, 503} => ~call.wrote

(***************************************************************************)
(* Termination of the candidate loop                                       *)
(***************************************************************************)

\* The loop of r has been left: by the break after a snapshot, or by the end
\* of the list after the failure of its last candidate.
LeftLoop(r) ==
    LET q == rq[r]
    IN  \/ Succeeded(r, q.idx) /\ q.status = 200
        \/ /\ q.idx = Len(q.candidates)
           /\ sc[r][q.idx].lost \/ FailedInTime(r, q.idx)
           /\ q.status \in {500, 504}

\* C25: the candidate loop is bounded: at most three candidates, each
\* attempted at most once, and a request that enters the loop eventually
\* leaves it, on a success or on exhaustion of the candidates.
C25_LoopBounded ==
    /\ [](\A r \in Requests :
            /\ Len(rq[r].candidates) <= 3
            /\ rq[r].idx <= Len(rq[r].candidates)
            /\ \A k \in Attempts : Started(r, k) => k <= rq[r].idx
            /\ (rq[r].pc = "done" /\ rq[r].idx > 0) => LeftLoop(r))
    /\ [][\A r \in Requests, k \in Attempts :
            (Started(r, k) /\ sc[r][k].stage # "INIT") => sc'[r][k].stage # "INIT"]_vars
    /\ \A r \in Requests : (rq[r].pc = "attempt") ~> (rq[r].pc = "done")

\* The loop was left on exhaustion after three attempts, the first of which
\* lost its race to the timer.
C25_ExhaustedAfterTimeout ==
    \E r \in Requests :
        /\ rq[r].pc = "done"
        /\ rq[r].idx = 3
        /\ sc[r][1].lost
        /\ FailedInTime(r, 3)

(***************************************************************************)
(* Stages of a scrape attempt                                              *)
(***************************************************************************)

\* The stage changes of a scrape attempt: the stages in order, and FAILED
\* from every stage before EXTRACTED and on to CLOSED.
StageChanges ==
    { <<"NONE", "INIT">>, <<"INIT", "SESSION_OPEN">>, <<"SESSION_OPEN", "NAVIGATED">>,
      <<"NAVIGATED", "CONTENT_STABLE">>, <<"CONTENT_STABLE", "EXTRACTED">>,
      <<"EXTRACTED", "CLOSED">>, <<"FAILED", "CLOSED">> }
    \cup {<<st, "FAILED">> : st \in {"INIT", "SESSION_OPEN", "NAVIGATED", "CONTENT_STABLE"}}

\* C26: a scrape attempt moves through INIT, SESSION_OPEN, NAVIGATED,
\* CONTENT_STABLE, EXTRACTED, CLOSED in that order; a failure leads to
\* FAILED and then CLOSED, the awaiting caller gets a SCRAPE_FAILED error
\* for it, and no snapshot is returned after a stage failed.
C26_StageOrder ==
    /\ [][\A r \in Requests, k \in Attempts :
            /\ sc'[r][k].stage # sc[r][k].stage =>
                    <<sc[r][k].stage, sc'[r][k].stage>> \in StageChanges
            /\ (sc[r][k].stage = "FAILED" /\ sc'[r][k].stage = "CLOSED" /\ Awaited(r, k)) =>
                    /\ rq'[r].lastErr.from = k
                    /\ SubSeq(rq'[r].lastErr.detail, 1, 2) = <<"Error:", "SCRAPE_FAILED:">>
                    /\ rq'[r].status # 200]_vars
    /\ [](\A r \in Requests, k \in Attempts :
            /\ sc[r][k].stage = "FAILED" => sc[r][k].err # ""
            /\ (sc[r][k].err # "" /\ rq[r].idx = k) => rq[r].status # 200)
    /\ \A r \in Requests, k \in Attempts :
            (sc[r][k].stage = "FAILED") ~> (sc[r][k].stage = "CLOSED")

\* An attempt failed in page.evaluate, after the content was stable, and the
\* handler holds its error.
C26_FailedAfterStable ==
    \E r \in Requests, k \in Attempts :
        /\ FailedInTime(r, k)
        /\ sc[r][k].err = "page.evaluate"
        /\ rq[r].lastErr = ScrapeError(k, "page.evaluate")

(***************************************************************************)
(* Order of the URL shapes                                                 *)
(***************************************************************************)

\* C27: direct extraction tries the shapes in the order listing-type
\* segment, generic /place/<id>, placeId query parameter, and the first
\* shape that matches gives the identifier.
C27_ShapeOrder ==
    (call.op = "extractPlaceIdFromUrl" /\ call.input # NULL) =>
        LET s == call.input
        IN  call.result =
                IF TypedMatches(s) # {} THEN <<s[Min(TypedMatches(s)) + 3]>>
                ELSE IF PlaceMatches(s) # {} THEN <<s[Min(PlaceMatches(s)) + 3]>>
                ELSE IF QueryMatches(s) # {} THEN <<s[Min(QueryMatches(s)) + 2]>>
                ELSE NULL

(***************************************************************************)
(* Resolution through a redirect                                           *)
(***************************************************************************)

\* The URL contains /restaurant/12345.
HasRestaurantPath(url) ==
    /\ url # NULL
    /\ \E i \in 1..Len(url) :
            /\ i + 3 <= Len(url)
            /\ url[i] \in SlashEndAtoms
            /\ url[i + 1] = "restaurant"
            /\ url[i + 2] = "/"
            /\ url[i + 3] = "12345"

\* The call resolved an input without a direct match through a redirect
\* that landed on a URL containing /restaurant/12345.
LandedOnRestaurant ==
    /\ call.op = "resolveNaverPlaceUrl"
    /\ Truthy(normalizeUrl(call.input))
    /\ ~ResolvesDirectly(call.input)
    /\ call.get.ok
    /\ call.get.hasRes
    /\ HasRestaurantPath(call.get.responseUrl)

\* C28: when the input has no direct match and the redirect lands on a URL
\* containing /restaurant/12345, the target has identifier 12345 and type
\* hint restaurant, and the candidates are the restaurant URL and then the
\* generic place URL.
C28_RedirectToRestaurant ==
    LandedOnRestaurant =>
        /\ call.result.placeId = <<"12345">>
        /\ call.result.typeHint = <<"restaurant">>
        /\ buildMobileScrapeCandidates(call.result.placeId, call.result.typeHint)
                = << <<"https://", "m.place.naver.com", "/", "restaurant", "/", "12345">>,
                     <<"https://", "m.place.naver.com", "/", "place", "/", "12345">> >>

(***************************************************************************)
(* Lengths of the texts of a snapshot                                      *)
(***************************************************************************)

\* The lengths of placeName, directionsText, storeInfoText and fullText in
\* the snapshot of the call.
TextLengths ==
    LET snap == call.result
    IN  { snap.placeNameLen,
          snap.storeInfoLen,
          snap.fullTextLen,
          IF call.op = "snapshot" THEN Len(snap.directionsText) ELSE snap.directionsLen }

\* C29: every text field of a returned snapshot is bounded in length
\* whatever the size of the page: none is longer than the largest cap the
\* scraper applies to a text, the 60000 characters of the body text.
C29_TextsCapped ==
    call.op \in {"snapshot", "snapshot2"} => \A n \in TextLengths : n <= 60000

(***************************************************************************)
(* Breakdown of the score                                                  *)
(***************************************************************************)

\* C30: calculateNaverScore returns one breakdown item for each of the five
\* categories, with the maxima 15, 25, 30, 20 and 10, and the total score is
\* the sum of the five item scores.
C30_BreakdownSumsToScore ==
    Scored =>
        LET items == call.result.breakdown
        IN  /\ Len(items) = 5
            /\ [i \in 1..5 |-> items[i].name]
                    = <<"directions", "store info", "reviews", "menu", "photos and keywords">>
            /\ [i \in 1..5 |-> items[i].max] = <<15, 25, 30, 20, 10>>
            /\ call.result.score
                    = items[1].score + items[2].score + items[3].score + items[4].score
                      + items[5].score

(***************************************************************************)
(* The stability wait                                                      *)
(***************************************************************************)

\* C31: a scrape attempt returns a snapshot only if the visible text of the
\* rendered page was longer than 500 characters within the stability wait;
\* on a shorter page the wait elapses, the attempt fails and nothing is
\* extracted.
C31_SnapshotOnlyFromStablePage ==
    \A r \in Requests, k \in Attempts :
        /\ sc[r][k].stage \in {"CONTENT_STABLE", "EXTRACTED"} => sc[r][k].page.bodyLen > 500
        /\ (sc[r][k].stage = "CLOSED" /\ sc[r][k].err = "") => sc[r][k].page.bodyLen > 500
        /\ (rq[r].status = 200 /\ ~rq[r].hit) => rq[r].body.metrics.storeInfoLen > 500

\* The wait elapsed on the first candidate's page, and the second
\* candidate's page of 501 characters gave the snapshot of the response.
C31_ShortPageThenStablePage ==
    \E r \in Requests :
        /\ FailedInTime(r, 1)
        /\ sc[r][1].err = "page.waitForFunction"
        /\ Succeeded(r, 2)
        /\ sc[r][2].page.bodyLen = 501
        /\ rq[r].status = 200

(***************************************************************************)
(* Attempts that lost their race                                           *)
(***************************************************************************)

\* C32: a scrape attempt that goes on after it lost its race to the timer
\* never influences the request: none of its steps changes the handler's
\* state or the cache, and a 200 response is built from the snapshot of the
\* attempt that won its race.
C32_LostAttemptIgnored ==
    /\ [][\A r \in Requests, k \in Attempts :
            (sc[r][k].lost /\ sc'[r][k] # sc[r][k]) =>
                (rq'[r] = rq[r] /\ cache' = cache)]_vars
    /\ [](\A r \in Requests :
            (rq[r].status = 200 /\ ~rq[r].hit) =>
                /\ Succeeded(r, rq[r].idx)
                /\ rq[r].body.scrapeUrl = rq[r].candidates[rq[r].idx]
                /\ rq[r].body.metrics = SnapshotOf(sc[r][rq[r].idx].page))

\* The first attempt lost its race and went on to a snapshot, and the
\* request was answered from the second attempt.
C32_LostSnapshotDiscarded ==
    \E r \in Requests :
        /\ sc[r][1].lost
        /\ sc[r][1].stage = "CLOSED"
        /\ sc[r][1].err = ""
        /\ Succeeded(r, 2)
        /\ rq[r].status = 200

(***************************************************************************)
(* The request a response belongs to                                       *)
(***************************************************************************)

\* C33: in every 200 response of the place endpoint, one served from the
\* cache included, inputUrl is the normalized URL of that same request and
\* placeId is the identifier resolved for that request.
C33_ResponseOfSameRequest ==
    \A r \in Requests :
        rq[r].status = 200 =>
            /\ rq[r].body.inputUrl = rq[r].input
            /\ rq[r].body.placeId = rq[r].resolved.placeId

(***************************************************************************)
(* The diagnosis page (DiagnosisPage.tsx)                                  *)
(*                                                                         *)
(* The state of the component is held in call: the values of useState,     *)
(* the two interval refs, the pending fetch with its abort timer, and the  *)
(* timer that shows the result.  Progress is counted in twentieths of a    *)
(* percent, the smallest increment of the progress interval, in exact      *)
(* arithmetic: the doubles of the code differ from it by rounding errors.  *)
(* The clock ticks once per period of the text interval.                   *)
(***************************************************************************)

PagePlatforms == {"INSTAGRAM", "NAVER_PLACE", "NAVER_SHOPPING"}

\* getLoadingMessages returns eight messages for either platform.
MessageCount == 8

\* The delays of the abort timer, the text interval and the progress
\* interval, in milliseconds.
AbortMs == 60000
TextMs == 1500
ProgressMs == 100

\* The abort timer in ticks of the clock, and the firings of the progress
\* interval in one tick.
AbortTicks == AbortMs \div TextMs
FiringsPerTick == TextMs \div ProgressMs

NoResult == [none |-> TRUE]

\* The component after its first render.
MountedPage ==
    [op |-> "page", mounted |-> TRUE, step |-> "SELECT", platform |-> "INSTAGRAM",
     inputId |-> <<>>, loadingText |-> [list |-> "initial", at |-> 0], progress |-> 0,
     igResult |-> NoResult, npResult |-> NoResult, errorMessage |-> "", alert |-> "",
     textInterval |-> FALSE, progressInterval |-> FALSE,
     fetch |-> "none", elapsed |-> 0, aborted |-> FALSE, resultTimer |-> FALSE]

\* What is typed into the input: nothing, a blank, an id and a share link.
PageInputs == {<<>>, <<" ">>, <<"instakoo">>, <<" ", "naver.me", "/", "xYz">>}

\* The data of a successful Instagram response: the first handler sends the
\* three counts, the second the scored profile.
PageIgDatas ==
    { [followers |-> 1000, following |-> 10, posts |-> 100],
      [username |-> "instakoo", followers |-> 1000, following |-> 10, posts |-> 100,
       score |-> 80, grade |-> "A", tips |-> <<>>, status |-> "Active"] }

\* The body of a successful place response: the first handler sends no
\* scoreBreakdown and no recommendations, the second sends both.
PageNpDatas ==
    { [ok |-> TRUE, placeName |-> "ko:sikdang", metrics |-> "scraped", score |-> 75,
       grade |-> "A", keywords |-> "keywords"],
      [placeName |-> "ko:sikdang", metrics |-> "metrics", score |-> 62, grade |-> "B",
       keywords |-> "keywords", scoreBreakdown |-> <<"five items">>,
       recommendations |-> <<"tip">>] }

\* How the fetch ends when it is not aborted: it rejects (no connection), or
\* it resolves with a body that is not JSON, with the JSON of a success, or
\* with the JSON of a failure with or without a message.
PageResponses(platform) ==
    { [kind |-> "rejected", ok |-> FALSE, data |-> NoResult, message |-> "Failed to fetch"],
      [kind |-> "text", ok |-> TRUE, data |-> NoResult, message |-> ""] }
    \cup { [kind |-> "json", ok |-> FALSE, data |-> NoResult, message |-> m] :
             m \in {"", "from the server"} }
    \cup { [kind |-> "json", ok |-> TRUE, data |-> d, message |-> ""] :
             d \in IF platform = "INSTAGRAM" THEN PageIgDatas ELSE PageNpDatas }

\* handleSelectPlatform
handleSelectPlatform(c, p) ==
    IF p = "NAVER_SHOPPING" THEN [c EXCEPT !.alert = "not ready"]
    ELSE [c EXCEPT !.platform = p, !.step = "INPUT", !.inputId = <<>>,
                   !.errorMessage = "", !.igResult = NoResult, !.npResult = NoResult,
                   !.alert = ""]

\* One firing of the progress interval: +2 below 30, +0.5 below 60, +0.2
\* below 80, +0.05 above, never beyond 95.
ProgressStep(prev) ==
    IF prev >= 1900 THEN prev
    ELSE LET increment == IF prev < 600 THEN 40
                          ELSE IF prev < 1200 THEN 10
                          ELSE IF prev < 1600 THEN 4
                          ELSE 1
         IN  IF prev + increment < 1900 THEN prev + increment ELSE 1900

\* n firings of the progress interval.
RECURSIVE ProgressAfter(_, _)
ProgressAfter(prev, n) == IF n = 0 THEN prev ELSE ProgressAfter(ProgressStep(prev), n - 1)

\* The progress after the firings of one tick, tabulated.
ProgressPerTick == [prev \in 0..2000 |-> ProgressAfter(prev, FiringsPerTick)]

\* The finally block of handleStartAnalysis that clears only the text
\* interval.
ClearIntervals_TextOnly(c) == [c EXCEPT !.textInterval = FALSE]

\* The finally block of handleStartAnalysis, and the cleanup on unmount.
ClearIntervals(c) == [c EXCEPT !.textInterval = FALSE, !.progressInterval = FALSE]

\* handleStartAnalysis up to the await of fetch.
handleStartAnalysis(c) ==
    IF ~Truthy(Trim(c.inputId))
    THEN [c EXCEPT !.alert = "enter the " \o c.platform \o " input"]
    ELSE [c EXCEPT !.step = "ANALYZING", !.progress = 0, !.errorMessage = "",
                   !.loadingText = [list |-> c.platform, at |-> 0],
                   !.textInterval = TRUE, !.progressInterval = TRUE,
                   !.fetch = "pending", !.elapsed = 0, !.aborted = FALSE, !.alert = ""]

\* The catch block of handleStartAnalysis for an error of the given name and
\* message.
CatchAnalysis(c, name, message) ==
    LET msg == IF name = "AbortError" THEN "timed out"
               ELSE IF message = "" THEN "error during analysis"
               ELSE IF message = "Failed to fetch" THEN "cannot connect to the server"
               ELSE message
    IN  [c EXCEPT !.errorMessage = msg, !.step = "ERROR"]

\* AfterFetch that shows the result step whatever the response was.
AfterFetch_AlwaysResult(c, resp) ==
    ClearIntervals(
        IF resp.kind = "json" /\ resp.ok
        THEN IF c.platform = "INSTAGRAM"
             THEN [c EXCEPT !.fetch = "none", !.progress = 2000, !.igResult = resp.data,
                            !.resultTimer = TRUE]
             ELSE [c EXCEPT !.fetch = "none", !.progress = 2000, !.npResult = resp.data,
                            !.resultTimer = TRUE]
        ELSE [c EXCEPT !.fetch = "none", !.resultTimer = TRUE])

\* The object built from the body of a place response, with the defaults for
\* what the body lacks.
SafePlace(data) ==
    LET Get(f, default) == IF f \in DOMAIN data THEN data[f] ELSE default
    IN  [placeName |-> Get("placeName", "Unknown"),
         metrics |-> Get("metrics", "zeros"),
         keywords |-> Get("keywords", "none"),
         score |-> Get("score", 0),
         grade |-> Get("grade", "D"),
         scoreBreakdown |-> Get("scoreBreakdown", <<>>),
         recommendations |-> Get("recommendations", <<>>)]

\* handleStartAnalysis from the end of the fetch to the end of its finally
\* block.  (When the fetch rejects, the abort timer is left armed; it later
\* aborts a request that is settled, which changes nothing.)
AfterFetch(c, resp) ==
    LET d == [c EXCEPT !.fetch = "none"]
        failure == IF c.platform = "INSTAGRAM" THEN "instagram diagnosis failed"
                   ELSE "place diagnosis failed"
    IN  ClearIntervals(
            IF resp.kind = "rejected" THEN CatchAnalysis(d, "TypeError", resp.message)
            ELSE IF resp.kind = "text" THEN CatchAnalysis(d, "Error", "response is not JSON")
            ELSE IF ~resp.ok
            THEN CatchAnalysis(d, "Error", IF resp.message = "" THEN failure ELSE resp.message)
            ELSE IF c.platform = "INSTAGRAM"
            THEN [d EXCEPT !.progress = 2000, !.igResult = resp.data, !.resultTimer = TRUE]
            ELSE [d EXCEPT !.progress = 2000, !.npResult = SafePlace(resp.data),
                           !.resultTimer = TRUE])

\* The component is mounted.
PageMount ==
    /\ call = NoCall
    /\ call' = MountedPage
    /\ UNCHANGED <<rq, sc, cache>>

PageActive == call.op = "page" /\ call.mounted

\* A platform card is clicked in the selection step.
SelectPlatform(p) ==
    /\ PageActive
    /\ call.step = "SELECT"
    /\ call' = handleSelectPlatform(call, p)
    /\ UNCHANGED <<rq, sc, cache>>

\* The input is edited.
TypeInput(text) ==
    /\ PageActive
    /\ call.step = "INPUT"
    /\ call.inputId # text
    /\ call' = [call EXCEPT !.inputId = text]
    /\ UNCHANGED <<rq, sc, cache>>

\* The start button is clicked or Enter is pressed in the input.
StartAnalysis ==
    /\ PageActive
    /\ call.step = "INPUT"
    /\ call' = handleStartAnalysis(call)
    /\ UNCHANGED <<rq, sc, cache>>

\* One period of the text interval passes: the intervals that are set fire,
\* and the abort timer of the pending fetch comes closer.
PageTick ==
    /\ PageActive
    /\ \/ call.fetch = "pending" /\ call.elapsed < AbortTicks
       \/ call.fetch # "pending" /\ (call.textInterval \/ call.progressInterval)
    /\ call' = [call EXCEPT
                  !.elapsed = IF call.fetch = "pending" THEN @ + 1 ELSE @,
                  !.loadingText.at = IF call.textInterval THEN (@ + 1) % MessageCount ELSE @,
                  !.progress = IF call.progressInterval THEN ProgressPerTick[@]
                               ELSE @]
    /\ UNCHANGED <<rq, sc, cache>>

\* The fetch ends before it is aborted.
FetchEnds(resp) ==
    /\ PageActive
    /\ call.fetch = "pending"
    /\ call' = AfterFetch(call, resp)
    /\ UNCHANGED <<rq, sc, cache>>

\* The abort timer fires on the pending fetch, which rejects with an
\* AbortError.
AbortFires ==
    /\ PageActive
    /\ call.fetch = "pending"
    /\ call.elapsed = AbortTicks
    /\ call' = ClearIntervals(CatchAnalysis([call EXCEPT !.fetch = "none", !.aborted = TRUE],
                                            "AbortError", "The user aborted a request."))
    /\ UNCHANGED <<rq, sc, cache>>

\* The timer of 500 ms set after a success fires.
ResultTimerFires ==
    /\ PageActive
    /\ call.resultTimer
    /\ call' = [call EXCEPT !.step = "RESULT", !.resultTimer = FALSE]
    /\ UNCHANGED <<rq, sc, cache>>

\* The button back to the selection, in the input and result steps.
BackToSelect ==
    /\ PageActive
    /\ call.step \in {"INPUT", "RESULT"}
    /\ call' = [call EXCEPT !.step = "SELECT"]
    /\ UNCHANGED <<rq, sc, cache>>

\* The retry button of the error step.
Retry ==
    /\ PageActive
    /\ call.step = "ERROR"
    /\ call' = [call EXCEPT !.step = "INPUT"]
    /\ UNCHANGED <<rq, sc, cache>>

\* onBack in the selection and result steps: the page is unmounted and the
\* cleanup of useEffect runs.
Leave ==
    /\ PageActive
    /\ call.step \in {"SELECT", "RESULT"}
    /\ call' = ClearIntervals([call EXCEPT !.mounted = FALSE])
    /\ UNCHANGED <<rq, sc, cache>>

\* The responses that can end the pending fetch.
Awaiting == IF PageActive /\ call.fetch = "pending" THEN PageResponses(call.platform) ELSE {}

NextPage ==
    \/ PageMount
    \/ \E p \in PagePlatforms : SelectPlatform(p)
    \/ \E text \in PageInputs : TypeInput(text)
    \/ StartAnalysis
    \/ PageTick
    \/ \E resp \in Awaiting : FetchEnds(resp)
    \/ AbortFires
    \/ ResultTimerFires
    \/ BackToSelect
    \/ Retry
    \/ Leave

PageSpec == Init /\ [][NextPage]_vars

\* Timers that are due fire, and the clock advances.
FairPageSpec ==
    PageSpec /\ WF_vars(PageTick) /\ WF_vars(AbortFires) /\ WF_vars(ResultTimerFires)

(***************************************************************************)
(* One response for every request                                          *)
(***************************************************************************)

C35_WholeRangeAttainable ==
    call.op = "survey" =>
        /\ {"S", "A", "B", "C", "D"} \subseteq call.grades
        /\ 100 \in call.scores

(***************************************************************************)
(* The steps of the diagnosis page                                         *)
(***************************************************************************)

\* C36: whenever the step is RESULT the result object of the selected
\* platform is non-null: igResult for INSTAGRAM, npResult for NAVER_PLACE.
C36_ResultOfSelectedPlatform ==
    (call.op = "page" /\ call.step = "RESULT") =>
        /\ call.platform = "INSTAGRAM" => call.igResult # NoResult
        /\ call.platform = "NAVER_PLACE" => call.npResult # NoResult

\* The result of a place diagnosis is shown, built with the defaults for a
\* body without scoreBreakdown, and no Instagram result is held.
C36_PlaceResultShown ==
    /\ call.op = "page"
    /\ call.step = "RESULT"
    /\ call.platform = "NAVER_PLACE"
    /\ call.npResult # NoResult
    /\ call.npResult.scoreBreakdown = <<>>
    /\ call.igResult = NoResult

====
